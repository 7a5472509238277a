--------------------------- MODULE ClusterUpProofs ---------------------------
(***************************************************************************)
(* Proofs about ClusterUp, for every set of machines, every set of valid   *)
(* configurations and any number of runs, errors and crashes.              *)
(*                                                                         *)
(* UpInv says, stage by stage, what a host that no failure excuses may     *)
(* run (BoundInv) and what the hosts whose turn has come do run            *)
(* (CompleteInv), how far the loops of the reconciler have changed the     *)
(* fetched state (LoopInv), who has port 6443 (ProxyInv) and whose Node is *)
(* being deleted (NodeInv).  It holds whatever fails, and gives            *)
(* HostsTracked, RemoveComplete, NodesRegistered, HostsAsConfigured and    *)
(* UnchangedHostsKept.                                                     *)
(*                                                                         *)
(* ReachInv says what a run in which nothing fails can rely on: etcd's     *)
(* members as the loops change them, all of them up, and an API server     *)
(* behind the kubeconfig until the last deletion.  With UpInv it gives     *)
(* ReconfigureSucceeds.                                                    *)
(***************************************************************************)
EXTENDS ClusterUp, TLAPS, WellFoundedInduction, SequenceTheorems,
        FiniteSetTheorems

-----------------------------------------------------------------------------
(* The inductive invariant.                                                 *)

EtcdLoop == {"etcd_member", "etcd_node", "etcd_host"}
AddLoop == {"etcd_add", "etcd_reload"}
WorkerLoop == {"worker_node", "worker_host"}
ControlLoop == {"control_node", "control_host"}
ReconcileStages == EtcdLoop \cup AddLoop \cup WorkerLoop \cup ControlLoop
DeployStages == {"certs", "etcd_run", "control_run", "save"}
RemoveStages == {"rm_worker", "rm_control", "rm_etcd", "rm_clean"}
Stages == {"idle", "state", "auth"} \cup ReconcileStages \cup DeployStages
          \cup AfterSave \cup RemoveStages

\* The parts of the state that the argument reads keep their types.
TypeInv ==
    /\ ctr \in [Hosts -> SUBSET Services]
    /\ files \in [Hosts -> SUBSET Dirs]
    /\ saved \in [Hosts -> SUBSET Roles]
    /\ conf \in [Hosts -> SUBSET Roles]
    /\ cur \in [Hosts -> SUBSET Roles]
    /\ pc \in Stages
    /\ todo \in SUBSET Hosts
    /\ group \in SUBSET Hosts
    /\ failed \in BOOLEAN
    /\ pc \notin {"idle"} \cup RemoveStages => ValidateCluster(conf)

\* What a run fetched, and how its loops move through it: the fetched state is
\* the saved one, but for the worker role of the hosts the worker loop has
\* reached; a loop is over hosts that lose, or get, its role.
CurAt(h) ==
    IF /\ "worker" \in saved[h] \ conf[h]
       /\ \/ pc \in ControlLoop
          \/ pc \in WorkerLoop /\ h \notin todo
          \/ pc = "worker_host" /\ h = FirstHost(todo)
    THEN saved[h] \ {"worker"} ELSE saved[h]

LoopInv ==
    /\ pc = "auth" =>
          \/ cur = saved /\ cur # NoConfig
          \/ cur = NoConfig /\ HostsOf(saved) \subseteq untracked
    /\ pc \in ReconcileStages => \A h \in Hosts : cur[h] = CurAt(h)
    /\ pc \in EtcdLoop =>
          \A h \in todo : "etcd" \in saved[h] /\ "etcd" \notin conf[h]
    /\ pc \in AddLoop \cup {"etcd_run"} => \A h \in todo : "etcd" \in conf[h]
    /\ pc \in WorkerLoop =>
          \A h \in todo : "worker" \in saved[h] /\ "worker" \notin conf[h]
    /\ pc \in ControlLoop =>
          \A h \in todo :
              "controlplane" \in saved[h] /\ "controlplane" \notin conf[h]
    /\ pc = "rm_worker" => \A h \in todo : "worker" \in conf[h]
    /\ pc = "rm_control" => \A h \in todo : "controlplane" \in conf[h]
    /\ pc = "rm_etcd" => \A h \in todo : "etcd" \in conf[h]
    /\ pc = "control_run" => \A h \in group : "controlplane" \in conf[h]
    /\ pc \in {"etcd_node", "etcd_host", "etcd_reload", "worker_host",
               "control_host"} => todo # {}
    /\ pc \in DOMAIN WorkerStages =>
          \A h \in group : WorkerStages[pc] \in conf[h]
    /\ pc \in AfterSave \/ result = "up" => saved = conf
    /\ result \in {"up", "removed"} => pc = "idle"

\* The loops of the reconciler that have taken their plane down on the host.
EtcdDone(h) ==
    "etcd" \in saved[h] \ conf[h] /\ (pc \in EtcdLoop => h \notin todo)
WorkerDone(h) ==
    /\ "worker" \in saved[h] \ conf[h]
    /\ pc \in ControlLoop \/ (pc \in WorkerLoop /\ h \notin todo)
ControlDone(h) ==
    /\ "controlplane" \in saved[h] \ conf[h]
    /\ pc \in ControlLoop /\ h \notin todo

\* While the reconciler is at work: what the saved roles allow, less what the
\* loops have taken down, and etcd where it has been added.
ProxyKept(h) ==
    /\ EtcdDone(h) => "worker" \in saved[h] /\ "controlplane" \in saved[h]
    /\ WorkerDone(h) => "controlplane" \in saved[h]

LoopFits(h) ==
    /\ "etcd" \in ctr[h] => \/ "etcd" \in saved[h] /\ ~EtcdDone(h)
                            \/ pc \notin EtcdLoop /\ "etcd" \in conf[h]
    /\ MasterServices \cap ctr[h] # {} =>
          "controlplane" \in saved[h] /\ ~ControlDone(h)
    /\ NodeServices \cap ctr[h] # {} =>
          /\ saved[h] # {}
          /\ ProxyKept(h)
          /\ ControlDone(h) => "worker" \in saved[h] /\ "worker" \in conf[h]
    /\ "nginx" \in ctr[h] =>
          /\ saved[h] # {}
          /\ "controlplane" \in saved[h] => "etcd" \in saved[h]
          /\ "controlplane" \in saved[h] => "worker" \notin saved[h]
          /\ ProxyKept(h)

\* After reconciling: what the configuration allows, and perhaps an nginx-proxy
\* that the deployment of the control plane will take away.
DeployFits(h) ==
    /\ "etcd" \in ctr[h] => "etcd" \in conf[h]
    /\ MasterServices \cap ctr[h] # {} => "controlplane" \in conf[h]
    /\ NodeServices \cap ctr[h] # {} => conf[h] # {}
    /\ "nginx" \in ctr[h] =>
          /\ conf[h] # {}
          /\ "controlplane" \in conf[h] =>
                "etcd" \in conf[h] \/ "worker" \in conf[h]

\* While "rke remove" is at work: what the configuration allows, less what it
\* has taken down.
RemoveFits(h) ==
    /\ Fits(h, conf[h])
    /\ "worker" \in conf[h] /\ (pc = "rm_worker" => h \notin todo) =>
          NodeServices \cap ctr[h] = {} /\ "nginx" \notin ctr[h]
    /\ /\ "controlplane" \in conf[h]
       /\ \/ pc \in {"rm_etcd", "rm_clean"}
          \/ pc = "rm_control" /\ h \notin todo
       => /\ MasterServices \cap ctr[h] = {}
          /\ "worker" \notin conf[h] => NodeServices \cap ctr[h] = {}
    /\ /\ "etcd" \in conf[h]
       /\ pc = "rm_clean" \/ (pc = "rm_etcd" /\ h \notin todo)
       => /\ NodeServices \cap ctr[h] = {}
          /\ "nginx" \notin ctr[h]
          /\ "etcd" \notin ctr[h]

BoundInv ==
    \A h \in Hosts \ Excused :
        /\ pc \in {"idle", "state", "auth"} \cup AfterSave =>
              Fits(h, saved[h])
        /\ pc \in ReconcileStages => LoopFits(h)
        /\ pc \in DeployStages => DeployFits(h)
        /\ pc \in RemoveStages => RemoveFits(h)
        /\ result = "removed" => ctr[h] = {}

\* On a control host that is a worker too, nginx-proxy has made room for the
\* API server before the configuration is saved; nobody brings it back.
ProxyInv ==
    /\ \A h \in proxied : h \in Hosts /\ "nginx" \in ctr[h]
    /\ \A h \in Hosts :
          {"controlplane", "worker"} \subseteq saved[h] =>
              "nginx" \notin ctr[h]
    /\ pc = "save" \/ (pc = "control_run" /\ ~failed) =>
          \A h \in Hosts : {"controlplane", "worker"} \subseteq conf[h]
                           /\ (pc = "control_run" => h \notin group)
                           => "nginx" \notin ctr[h]

\* What the deployment has brought up so far, on the hosts whose turn it was.
HasMaster(h) == {"sidekick"} \cup MasterServices \subseteq ctr[h]
HasNode(h) ==
    /\ NodeServices \subseteq ctr[h]
    /\ "controlplane" \notin conf[h] => "nginx" \in ctr[h]

Deployed(role, stage, later, h) ==
    /\ role \in conf[h]
    /\ (pc = stage /\ ~failed /\ h \notin group) \/ pc \in later

CompleteInv ==
    \A h \in Hosts :
        /\ /\ conf[h] # {}
           /\ \/ pc = "certs" /\ ~failed /\ h \notin group
              \/ pc \in {"etcd_run", "control_run", "save"} \cup AfterSave
              \/ result = "up"
           => "ssl" \in files[h]
        /\ /\ "etcd" \in conf[h]
           /\ \/ pc = "etcd_run" /\ h \notin todo
              \/ pc \in {"control_run", "save"} \cup AfterSave
              \/ result = "up"
           => "etcd" \in ctr[h] /\ "etcd" \in files[h]
        /\ \/ Deployed("controlplane", "control_run",
                       {"save"} \cup AfterSave, h)
           \/ "controlplane" \in conf[h] /\ result = "up"
           => HasMaster(h)
        /\ \/ Deployed("etcd", "worker_etcd",
                       {"worker_control", "worker_worker", "sync"}, h)
           \/ Deployed("controlplane", "worker_control",
                       {"worker_worker", "sync"}, h)
           \/ Deployed("worker", "worker_worker", {"sync"}, h)
           \/ conf[h] # {} /\ result = "up"
           => HasNode(h)
        /\ /\ conf[h] # {}
           /\ (pc = "rm_clean" /\ h \notin todo) \/ result = "removed"
           => files[h] = {}

\* A registered kubelet runs, and has its Node, unless the reconciler is just
\* about to take it down.
NodeInv ==
    /\ \A h \in joined : h \in Hosts /\ "kubelet" \in ctr[h]
    /\ \A h \in joined \ (Excused \cup interrupted) :
          \/ h \in nodes
          \/ /\ pc \in {"etcd_host", "worker_host"} /\ h = FirstHost(todo)
             /\ "controlplane" \notin cur[h]
          \/ /\ pc = "control_host" /\ h = SelfLast(todo, kubeconf)
             /\ "worker" \notin cur[h]

ServesInv == result = "up" => EtcdUp

UpInv ==
    /\ TypeInv /\ LoopInv /\ BoundInv /\ ProxyInv /\ CompleteInv /\ NodeInv
    /\ ServesInv

-----------------------------------------------------------------------------
(* What a run without errors goes by.  As long as nothing has failed and     *)
(* every host is known, the reconciler moves through etcd's membership and   *)
(* the control plane without taking away what its next step needs.           *)

ValidConfigs == {f \in [Hosts -> SUBSET Roles] : ValidateCluster(f)}

\* Whatever fails: every address is a host, and what is stored is valid.
StoreInv ==
    /\ kubeconf \in Hosts \cup {NoHost} /\ admin \in Hosts \cup {NoHost}
    /\ backup \in [Hosts -> ValidConfigs \cup {NoConfig}]
    /\ saved # NoConfig => ValidateCluster(saved)
    /\ pc # "idle" => HostsOf(conf) # {}
    /\ faults \in Nat /\ untracked \in SUBSET Hosts
    /\ lost \in BOOLEAN /\ (~lost => untracked = {})

\* Nothing has failed, and rke has known all hosts.
Clean == faults = 0 /\ ~lost

KeepsEtcd == EtcdHosts(saved) \cap EtcdHosts(conf) # {}
MembersUp == \A h \in members : "etcd" \in ctr[h] /\ "etcd" \in files[h]

\* The host behind the kubeconfig has a working API server.
Serves ==
    /\ kubeconf \in Hosts /\ kubeconf \in trusted
    /\ kubeconf \notin proxied /\ "api" \in ctr[kubeconf]

\* Only when all etcd hosts are exchanged at once is a host skipped, and only a
\* taken port makes a goroutine fail.
QuietInv ==
    /\ swallowed = {}
    /\ warned # {} => pc \in {"etcd_member", "etcd_add"} /\ ~KeepsEtcd
    /\ failed => pc = "control_run"

\* Between runs, and when there is no cluster.
SettledInv ==
    /\ /\ saved = NoConfig
       /\ pc \in {"idle", "state", "auth", "certs"} \cup RemoveStages
       => members = {}
    /\ /\ saved # NoConfig
       /\ pc = "auth" \/ (pc \in {"idle", "state"} /\ kubeconf # NoHost)
       => members = EtcdHosts(saved) /\ MembersUp /\ Serves

\* reconcileEtcd first takes the members down to those that stay, one by one,
\* and then up to those configured.
LeavingMembers ==
    {h \in EtcdHosts(saved) : "etcd" \in conf[h] \/ h \in todo}
    \ IF pc = "etcd_member" THEN {} ELSE {FirstHost(todo)}

JoiningMembers ==
    (EtcdHosts(conf) \ todo)
    \cup IF pc = "etcd_add" THEN {} ELSE {FirstHost(todo)}

MembershipInv ==
    /\ pc \in EtcdLoop =>
          /\ MembersUp /\ Serves
          /\ IF KeepsEtcd THEN members = LeavingMembers
             ELSE pc = "etcd_member" /\ members \subseteq EtcdHosts(saved)
    /\ pc \in AddLoop =>
          /\ pc = "etcd_add" => MembersUp
          /\ Serves
          /\ todo \cap EtcdHosts(saved) = {}
          /\ IF KeepsEtcd THEN members = JoiningMembers
             ELSE /\ pc = "etcd_add" /\ todo = EtcdHosts(conf)
                  /\ members \subseteq EtcdHosts(saved)
    /\ pc = "etcd_run" =>
          \/ members = EtcdHosts(conf)
          \/ members = {} /\ todo = EtcdHosts(conf)
    /\ pc \in WorkerLoop \cup ControlLoop \cup {"control_run", "save"}
              \cup AfterSave
       => members = EtcdHosts(conf)

\* The API server behind the kubeconfig goes last.
AccessInv ==
    /\ pc \in ReconcileStages =>
          saved # NoConfig /\ sans = ControlHosts(conf)
    /\ pc \in WorkerLoop \cup ControlLoop =>
          /\ KeepsEtcd /\ MembersUp
          /\ pc \in WorkerLoop \/ todo # {} => Serves
    /\ pc \in DeployStages /\ saved # NoConfig =>
          /\ KeepsEtcd /\ members = EtcdHosts(conf) /\ MembersUp
          /\ kubeconf \in ControlHosts(conf) /\ admin = kubeconf
          /\ sans = ControlHosts(conf)
          /\ \A h \in ControlHosts(conf) :
                "api" \in ctr[h] => h \in trusted \cup ControlHosts(saved)
          /\ failed => \E h \in ControlHosts(conf) : PortTaken(h)
    /\ pc \in DeployStages /\ saved = NoConfig =>
          /\ admin \in sans /\ (pc # "certs" => kubeconf = admin)
          /\ \A h \in Hosts :
                /\ "nginx" \notin ctr[h]
                /\ "api" \in ctr[h] /\ h \in sans => h \in trusted
          /\ ~failed
    /\ pc \in AfterSave => Serves

OnTrack == QuietInv /\ SettledInv /\ MembershipInv /\ AccessInv

ReachInv == StoreInv /\ (Clean => OnTrack)

-----------------------------------------------------------------------------
(* The operators of the model.                                              *)

\* Every non-empty set of natural numbers has a least one.
LEMMA LeastNatural ==
  ASSUME NEW T \in SUBSET Nat, T # {}
  PROVE  \E x \in T : \A y \in T : x <= y
<1> DEFINE R == OpToRel(<, Nat)
<1>1. IsWellFoundedOn(R, Nat)
  BY NatLessThanWellFounded
<1>2. \A x, y \in Nat : x < y => <<x, y>> \in R
  BY DEF OpToRel
<1> HIDE DEF R
<1>3. PICK x \in T : \A y \in T : ~(<<y, x>> \in R)
  BY <1>1, WFMin
<1>4. \A y \in T : y \in Nat /\ x \in Nat /\ ~(y < x)
  BY <1>2, <1>3
<1> QED BY <1>4

\* Of some hosts, one is listed first in cluster.yml.
LEMMA FirstHostIn ==
  ASSUME NEW S \in SUBSET Hosts, S # {}
  PROVE  FirstHost(S) \in S
<1> DEFINE Ranks == {HostOrder[h] : h \in S}
<1>1. Ranks \in SUBSET Nat /\ Ranks # {}
  BY ConfigsAssumption
<1>2. \E x \in Ranks : \A y \in Ranks : x <= y
  BY <1>1, LeastNatural
<1>3. \E h \in S : \A g \in S : HostOrder[h] <= HostOrder[g]
  BY <1>2
<1> QED BY <1>3 DEF FirstHost

\* ... and one is listed last.
LEMMA LastHostIn ==
  ASSUME NEW S \in SUBSET Hosts, S # {}
  PROVE  LastHost(S) \in S
<1> DEFINE N == Cardinality(Hosts)
           Ranks == {N - HostOrder[h] : h \in S}
<1>1. N \in Nat /\ \A h \in S : HostOrder[h] \in 1..N
  BY ConfigsAssumption, FS_CardinalityType
<1>2. Ranks \in SUBSET Nat /\ Ranks # {}
  BY <1>1
<1>3. \E x \in Ranks : \A y \in Ranks : x <= y
  BY <1>2, LeastNatural
<1>4. PICK h \in S : \A g \in S : N - HostOrder[h] <= N - HostOrder[g]
  BY <1>3
<1>5. \A g \in S : HostOrder[g] <= HostOrder[h]
  BY <1>1, <1>4
<1> QED BY <1>5 DEF LastHost

\* rebuildLocalAdminConfig settles on one of the control plane hosts.
LEMMA FirstWorkingIn ==
  ASSUME NEW cps \in SUBSET Hosts, cps # {}
  PROVE  FirstWorking(cps) \in cps
<1> DEFINE up == {h \in cps : ApiUp(h)}
<1>1. up \in SUBSET Hosts /\ up \subseteq cps
  OBVIOUS
<1>2. FirstWorking(cps) = IF up = {} THEN LastHost(cps) ELSE FirstHost(up)
  BY DEF FirstWorking
<1> HIDE DEF up
<1> QED BY <1>1, <1>2, FirstHostIn, LastHostIn

\* The host a loop is at is one of those left.
LEMMA CurrentIn ==
  ASSUME todo \in SUBSET Hosts, todo # {}
  PROVE  /\ Current \in todo
         /\ FirstHost(todo) \in todo
         /\ SelfLast(todo, kubeconf) \in todo
<1>1. FirstHost(todo) \in todo
  BY FirstHostIn
<1>2. SelfLast(todo, kubeconf) \in todo
  <2>1. CASE todo \subseteq {kubeconf}
    BY <2>1 DEF SelfLast
  <2>2. CASE ~(todo \subseteq {kubeconf})
    <3>1. FirstHost(todo \ {kubeconf}) \in todo \ {kubeconf}
      BY <2>2, FirstHostIn
    <3> QED BY <2>2, <3>1 DEF SelfLast
  <2> QED BY <2>1, <2>2
<1>3. ByPlane(todo) \in todo
  <2> DEFINE C == todo \cap ControlHosts(conf)
             W == todo \cap Plane(conf, "worker")
             S == IF C # {} THEN C ELSE IF W # {} THEN W ELSE todo
  <2>1. S \in SUBSET Hosts /\ S # {} /\ S \subseteq todo
    OBVIOUS
  <2>2. ByPlane(todo) = FirstHost(S)
    BY DEF ByPlane
  <2> HIDE DEF S
  <2>3. FirstHost(S) \in S
    BY <2>1, FirstHostIn
  <2> QED BY <2>1, <2>2, <2>3
<1> QED BY <1>1, <1>2, <1>3 DEF Current

\* What a loop over services has done is part of what all of it does.
LEMMA PrefixTaken ==
  ASSUME NEW list, Len(list) \in Nat, NEW k \in 0..Len(list)
  PROVE  Take(list, k) \subseteq Take(list, Len(list))
  BY DEF Take

\* A list of services made of two has the services of both.
LEMMA ConcatTaken ==
  ASSUME NEW a \in Seq(Services), NEW b \in Seq(Services)
  PROVE  /\ Len(a \o b) \in Nat
         /\ Take(a \o b, Len(a \o b)) = Take(a, Len(a)) \cup Take(b, Len(b))
<1> DEFINE n == Len(a)
           m == Len(b)
<1>1. n \in Nat /\ m \in Nat
  OBVIOUS
<1>2. /\ Len(a \o b) = n + m
      /\ \A i \in 1..n + m : (a \o b)[i] = IF i <= n THEN a[i] ELSE b[i - n]
  BY ConcatProperties
<1>3. ASSUME NEW x \in Take(a \o b, Len(a \o b))
      PROVE  x \in Take(a, n) \cup Take(b, m)
  <2>1. PICK i \in 1..n + m : x = (a \o b)[i]
    BY <1>2, <1>3 DEF Take
  <2>2. CASE i <= n
    BY <2>1, <2>2, <1>1, <1>2 DEF Take
  <2>3. CASE ~(i <= n)
    <3>1. i - n \in 1..m /\ x = b[i - n]
      BY <2>1, <2>3, <1>1, <1>2
    <3> QED BY <3>1 DEF Take
  <2> QED BY <2>2, <2>3
<1>4. ASSUME NEW x \in Take(a, n) PROVE x \in Take(a \o b, Len(a \o b))
  <2>1. PICK i \in 1..n : x = a[i]
    BY <1>4 DEF Take
  <2>2. i \in 1..n + m /\ x = (a \o b)[i]
    BY <2>1, <1>1, <1>2
  <2> QED BY <2>2, <1>2 DEF Take
<1>5. ASSUME NEW x \in Take(b, m) PROVE x \in Take(a \o b, Len(a \o b))
  <2>1. PICK i \in 1..m : x = b[i]
    BY <1>5 DEF Take
  <2>2. n + i \in 1..n + m /\ ~(n + i <= n) /\ (n + i) - n = i
    BY <2>1, <1>1
  <2>3. x = (a \o b)[n + i]
    BY <2>1, <2>2, <1>2
  <2> QED BY <2>2, <2>3, <1>2 DEF Take
<1> QED BY <1>1, <1>2, <1>3, <1>4, <1>5

WorkerSet == NodeServices \cup {"nginx"}

\* The services of each list.
LEMMA ListsTaken ==
  /\ WorkerPlane \in Seq(Services)
  /\ Take(WorkerPlane, Len(WorkerPlane)) = WorkerSet
  /\ Take(<<>>, Len(<<>>)) = {}
  /\ ControlServices \in Seq(Services)
  /\ Take(ControlServices, Len(ControlServices))
       = {"sidekick"} \cup MasterServices
  BY DEF Take, WorkerPlane, ControlServices, WorkerSet, NodeServices,
         MasterServices, Services

\* What RemoveWorkerPlane, RemoveControlPlane and RemoveEtcdPlane take down
\* when they get to the end.
LEMMA RemoveWorkerPlaneTaken ==
  ASSUME NEW roles, NEW force \in BOOLEAN
  PROVE  LET list == RemoveWorkerPlane(roles, force) IN
         /\ Len(list) \in Nat
         /\ Take(list, Len(list)) =
               IF "controlplane" \in roles /\ ~force THEN {} ELSE WorkerSet
<1>1. CASE "controlplane" \in roles /\ ~force
  BY <1>1, ListsTaken DEF RemoveWorkerPlane
<1>2. CASE ~("controlplane" \in roles /\ ~force)
  BY <1>2, ListsTaken DEF RemoveWorkerPlane
<1> QED BY <1>1, <1>2

\* The workers keep their own plane.
LEMMA RemoveControlPlaneTaken ==
  ASSUME NEW roles
  PROVE  LET list == RemoveControlPlane(roles) IN
         /\ Len(list) \in Nat
         /\ Take(list, Len(list)) =
               MasterServices \cup
               IF "worker" \in roles THEN {} ELSE NodeServices
<1> DEFINE a == <<"api", "controller", "scheduler">>
           b == <<"kubelet", "kubeproxy", "sidekick">>
           e == <<>>
<1>1. /\ a \in Seq(Services) /\ b \in Seq(Services) /\ e \in Seq(Services)
      /\ Take(a, Len(a)) = MasterServices
      /\ Take(b, Len(b)) = NodeServices
      /\ Take(e, Len(e)) = {}
  BY DEF Take, Services, MasterServices, NodeServices
<1>2. RemoveControlPlane(roles) = a \o (IF "worker" \in roles THEN e ELSE b)
  BY DEF RemoveControlPlane
<1> HIDE DEF a, b, e
<1>3. CASE "worker" \in roles
  <2>1. RemoveControlPlane(roles) = a \o e
    BY <1>2, <1>3
  <2> QED BY <1>1, <1>3, <2>1, ConcatTaken
<1>4. CASE "worker" \notin roles
  <2>1. RemoveControlPlane(roles) = a \o b
    BY <1>2, <1>4
  <2> QED BY <1>1, <1>4, <2>1, ConcatTaken
<1> QED BY <1>3, <1>4

\* A host that is a worker and a control host keeps everything but etcd.
LEMMA RemoveEtcdPlaneTaken ==
  ASSUME NEW roles, NEW force \in BOOLEAN
  PROVE  LET list == RemoveEtcdPlane(roles, force) IN
         /\ Len(list) \in Nat
         /\ Take(list, Len(list)) =
               {"etcd"} \cup
               IF {"worker", "controlplane"} \subseteq roles /\ ~force THEN {}
               ELSE WorkerSet
<1> DEFINE a == <<"etcd">>
           b == WorkerPlane
           e == <<>>
           keep == {"worker", "controlplane"} \subseteq roles /\ ~force
<1>1. /\ a \in Seq(Services) /\ b \in Seq(Services) /\ e \in Seq(Services)
      /\ Take(a, Len(a)) = {"etcd"}
      /\ Take(b, Len(b)) = WorkerSet
      /\ Take(e, Len(e)) = {}
  BY ListsTaken DEF Take, Services
<1>2. RemoveEtcdPlane(roles, force) = a \o (IF keep THEN e ELSE b)
  BY DEF RemoveEtcdPlane
<1> HIDE DEF a, b, e
<1>3. CASE keep
  <2>1. RemoveEtcdPlane(roles, force) = a \o e
    BY <1>2, <1>3
  <2> QED BY <1>1, <1>3, <2>1, ConcatTaken
<1>4. CASE ~keep
  <2>1. RemoveEtcdPlane(roles, force) = a \o b
    BY <1>2, <1>4
  <2> QED BY <1>1, <1>4, <2>1, ConcatTaken
<1> QED BY <1>3, <1>4

\* Only hosts outside the control plane get an nginx-proxy.
LEMMA WorkerServicesTaken ==
  ASSUME NEW roles
  PROVE  LET list == WorkerServices(roles) IN
         /\ Len(list) \in Nat
         /\ Take(list, Len(list)) =
               (IF "controlplane" \in roles THEN {} ELSE {"nginx"})
               \cup NodeServices
<1> DEFINE a == <<"nginx">>
           b == <<"sidekick", "kubelet", "kubeproxy">>
           e == <<>>
<1>1. /\ a \in Seq(Services) /\ b \in Seq(Services) /\ e \in Seq(Services)
      /\ Take(a, Len(a)) = {"nginx"}
      /\ Take(b, Len(b)) = NodeServices
      /\ Take(e, Len(e)) = {}
  BY DEF Take, Services, NodeServices
<1>2. WorkerServices(roles) = (IF "controlplane" \in roles THEN e ELSE a) \o b
  BY DEF WorkerServices
<1> HIDE DEF a, b, e
<1>3. CASE "controlplane" \in roles
  <2>1. WorkerServices(roles) = e \o b
    BY <1>2, <1>3
  <2> QED BY <1>1, <1>3, <2>1, ConcatTaken
<1>4. CASE "controlplane" \notin roles
  <2>1. WorkerServices(roles) = a \o b
    BY <1>2, <1>4
  <2> QED BY <1>1, <1>4, <2>1, ConcatTaken
<1> QED BY <1>3, <1>4

-----------------------------------------------------------------------------
(* What the steps that deploy and take down do to the host they are at.      *)

\* Other hosts are left alone, and nobody takes nginx-proxy's port who does
\* not run it.
OnlyAt(h) ==
    /\ \A g \in Hosts : g # h => ctr'[g] = ctr[g]
    /\ \A g \in proxied' : g \in Hosts /\ "nginx" \in ctr'[g]

\* A member of an errgroup adds to what the host had, and all of its list
\* unless it reports a failure.
LEMMA DeployFacts ==
  ASSUME ctr \in [Hosts -> SUBSET Services], failed \in BOOLEAN,
         NEW h \in Hosts, NEW before \in SUBSET ctr[h],
         NEW list, Len(list) \in Nat, Take(list, Len(list)) \subseteq Services,
         Deploy(h, before, list)
  PROVE  /\ ctr' \in [Hosts -> SUBSET Services]
         /\ OnlyAt(h)
         /\ before \subseteq ctr'[h]
         /\ ctr'[h] \subseteq before \cup Take(list, Len(list))
         /\ group' = group \ {h}
         /\ failed' \in BOOLEAN /\ (failed => failed')
         /\ ~failed' => Take(list, Len(list)) \subseteq ctr'[h]
<1>1. PICK k \in 0..Len(list) :
         /\ ctr' = [ctr EXCEPT ![h] = before \cup Take(list, k)]
         /\ Port6443
         /\ \/ k = Len(list) /\ failed' = failed
            \/ k < Len(list) /\ failed' = TRUE
  BY DEF Deploy
<1>2. Take(list, k) \subseteq Take(list, Len(list))
  BY PrefixTaken
<1>3. ctr'[h] = before \cup Take(list, k)
  BY <1>1
<1>4. ctr' \in [Hosts -> SUBSET Services]
  BY <1>1, <1>2
<1>5. OnlyAt(h)
  BY <1>1 DEF OnlyAt, Port6443
<1>6. ~failed' => k = Len(list)
  BY <1>1
<1>7. group' = group \ {h} /\ failed' \in BOOLEAN /\ (failed => failed')
  <2>1. group' = group \ {h}
    BY DEF Deploy
  <2>2. failed' = failed \/ failed' = TRUE
    BY <1>1
  <2> QED BY <2>1, <2>2
<1>8. ~failed' => Take(list, Len(list)) \subseteq ctr'[h]
  BY <1>3, <1>6
<1>9. before \subseteq ctr'[h]
      /\ ctr'[h] \subseteq before \cup Take(list, Len(list))
  BY <1>2, <1>3
<1> QED BY <1>4, <1>5, <1>7, <1>8, <1>9

\* doDeployControlHost adds the control plane, takes the nginx-proxy of a
\* worker away and touches nothing else.
LEMMA DoDeployControlHostFacts ==
  ASSUME TypeInv, NEW h \in Hosts, DoDeployControlHost(h)
  PROVE  /\ ctr' \in [Hosts -> SUBSET Services]
         /\ OnlyAt(h)
         /\ ctr[h] \ {"nginx"} \subseteq ctr'[h]
         /\ ctr'[h] \subseteq ctr[h] \cup {"sidekick"} \cup MasterServices
         /\ IF "worker" \in conf[h] THEN "nginx" \notin ctr'[h]
            ELSE ctr[h] \subseteq ctr'[h]
         /\ group' = group \ {h}
         /\ failed' \in BOOLEAN /\ (failed => failed')
         /\ ~failed' => {"sidekick"} \cup MasterServices \subseteq ctr'[h]
<1> DEFINE before == ctr[h] \ IF "worker" \in conf[h] THEN {"nginx"} ELSE {}
           all == {"sidekick"} \cup MasterServices
<1>1. ctr \in [Hosts -> SUBSET Services] /\ failed \in BOOLEAN
  BY DEF TypeInv
<1>2. /\ Len(ControlServices) \in Nat
      /\ Take(ControlServices, Len(ControlServices)) = all
  BY ListsTaken
<1>3. all \subseteq Services /\ "nginx" \notin all
  BY DEF MasterServices, Services
<1>4. \/ Deploy(h, before, ControlServices)
      \/ /\ ctr' = [ctr EXCEPT ![h] = before \cup {"sidekick", "api"}]
         /\ Port6443
         /\ group' = group \ {h}
         /\ failed' = TRUE
  BY DEF DoDeployControlHost
<1>5. /\ ctr' \in [Hosts -> SUBSET Services]
      /\ OnlyAt(h)
      /\ before \subseteq ctr'[h]
      /\ ctr'[h] \subseteq before \cup all
      /\ group' = group \ {h}
      /\ failed' \in BOOLEAN /\ (failed => failed')
      /\ ~failed' => all \subseteq ctr'[h]
  <2>1. CASE Deploy(h, before, ControlServices)
    <3> HIDE DEF all
    <3>1. before \in SUBSET ctr[h]
      OBVIOUS
    <3> HIDE DEF before
    <3> QED BY <1>1, <1>2, <1>3, <2>1, <3>1, DeployFacts
  <2>2. CASE /\ ctr' = [ctr EXCEPT ![h] = before \cup {"sidekick", "api"}]
             /\ Port6443
             /\ group' = group \ {h}
             /\ failed' = TRUE
    <3>1. before \in SUBSET Services /\ {"sidekick", "api"} \subseteq all
      BY <1>1 DEF MasterServices
    <3> HIDE DEF before, all
    <3>2. ctr'[h] = before \cup {"sidekick", "api"}
      BY <1>1, <2>2
    <3>3. ctr' \in [Hosts -> SUBSET Services]
      BY <1>1, <1>3, <2>2, <3>1
    <3>4. OnlyAt(h)
      BY <1>1, <2>2 DEF OnlyAt, Port6443
    <3> QED BY <2>2, <3>1, <3>2, <3>3, <3>4
  <2> QED BY <1>4, <2>1, <2>2
<1>6. CASE "worker" \in conf[h]
  BY <1>3, <1>5, <1>6
<1>7. CASE "worker" \notin conf[h]
  BY <1>3, <1>5, <1>7
<1> QED BY <1>6, <1>7

\* doDeployWorkerPlane only adds: the worker plane, with nginx-proxy on hosts
\* that are no control hosts.
LEMMA DoDeployWorkerPlaneFacts ==
  ASSUME TypeInv, NEW h \in Hosts, DoDeployWorkerPlane(h)
  PROVE  /\ ctr' \in [Hosts -> SUBSET Services]
         /\ OnlyAt(h)
         /\ ctr[h] \subseteq ctr'[h]
         /\ ctr'[h] \subseteq ctr[h] \cup WorkerSet
         /\ "controlplane" \in conf[h] =>
               ctr'[h] \subseteq ctr[h] \cup NodeServices
         /\ group' = group \ {h}
         /\ failed' \in BOOLEAN /\ (failed => failed')
         /\ ~failed' =>
               /\ NodeServices \subseteq ctr'[h]
               /\ "controlplane" \notin conf[h] => "nginx" \in ctr'[h]
<1> DEFINE list == WorkerServices(conf[h])
           all == (IF "controlplane" \in conf[h] THEN {} ELSE {"nginx"})
                  \cup NodeServices
<1>1. ctr \in [Hosts -> SUBSET Services] /\ failed \in BOOLEAN
  BY DEF TypeInv
<1>2. Len(list) \in Nat /\ Take(list, Len(list)) = all
  BY WorkerServicesTaken
<1>3. all \subseteq Services
  BY DEF NodeServices, Services
<1>4. Deploy(h, ctr[h], list)
  BY DEF DoDeployWorkerPlane
<1> HIDE DEF list, all
<1>5. /\ ctr' \in [Hosts -> SUBSET Services]
      /\ OnlyAt(h)
      /\ ctr[h] \subseteq ctr'[h]
      /\ ctr'[h] \subseteq ctr[h] \cup all
      /\ group' = group \ {h}
      /\ failed' \in BOOLEAN /\ (failed => failed')
      /\ ~failed' => all \subseteq ctr'[h]
  BY <1>1, <1>2, <1>3, <1>4, DeployFacts
<1> USE DEF all, WorkerSet
<1>6. CASE "controlplane" \in conf[h]
  BY <1>5, <1>6
<1>7. CASE "controlplane" \notin conf[h]
  BY <1>5, <1>7
<1> QED BY <1>6, <1>7

\* TakeDown only removes, and the kubelet it removes is no longer registered.
LEMMA TakeDownFacts ==
  ASSUME ctr \in [Hosts -> SUBSET Services], NEW h \in Hosts, NEW list, NEW k,
         TakeDown(h, list, k)
  PROVE  /\ ctr' \in [Hosts -> SUBSET Services]
         /\ OnlyAt(h)
         /\ ctr'[h] = ctr[h] \ Take(list, k)
         /\ joined' \subseteq joined
         /\ joined \ {h} \subseteq joined'
         /\ h \in joined' => "kubelet" \notin Take(list, k)
  BY DEF TakeDown, OnlyAt, Port6443

\* reconcileHost only removes.  Unless the run ends here, or a warning is given
\* or swallowed, all of the list is gone afterwards.
LEMMA ReconcileHostFacts ==
  ASSUME TypeInv, NEW h \in Hosts, NEW plane, NEW list, NEW next,
         next # "idle", Len(list) \in Nat,
         ReconcileHost(h, plane, list, next)
  PROVE  /\ ctr' \in [Hosts -> SUBSET Services]
         /\ files' \in [Hosts -> SUBSET Dirs]
         /\ OnlyAt(h)
         /\ ctr'[h] \subseteq ctr[h]
         /\ \A g \in Hosts : g # h => files'[g] = files[g]
         /\ joined' \subseteq joined
         /\ h \in joined' => ("kubelet" \in ctr[h] => "kubelet" \in ctr'[h])
         /\ warned \subseteq warned' /\ swallowed \subseteq swallowed'
         /\ UNCHANGED <<saved, conf>>
         /\ Fail => faults' = faults + 1
         /\ ~Fail =>
               /\ pc' = next /\ todo' = todo \ {Current}
               /\ UNCHANGED <<group, failed, cur, untracked, interrupted, result>>
               /\ h \notin warned' \cup swallowed' =>
                     /\ ctr'[h] = ctr[h] \ Take(list, Len(list))
                     /\ h \in joined' =>
                           "kubelet" \notin Take(list, Len(list))
<1> DEFINE cleaned == [files EXCEPT ![h] = @ \ CleanUpPaths(plane, cur[h])]
           NextHost == /\ pc' = next
                       /\ todo' = todo \ {Current}
                       /\ UNCHANGED <<group, failed, conf, cur, untracked,
                                      interrupted, result>>
<1>1. ctr \in [Hosts -> SUBSET Services] /\ files \in [Hosts -> SUBSET Dirs]
  BY DEF TypeInv
<1>2. PICK k \in 0..Len(list) :
         /\ TakeDown(h, list, k)
         /\ \/ /\ k = Len(list)
               /\ files' = cleaned
               /\ NextHost
               /\ UNCHANGED <<warned, swallowed>>
            \/ /\ files' = cleaned
               /\ swallowed' = swallowed \cup {h}
               /\ NextHost
               /\ UNCHANGED warned
            \/ /\ warned' = warned \cup {h}
               /\ NextHost
               /\ UNCHANGED <<files, swallowed>>
            \/ Fail /\ UNCHANGED files
  BY DEF ReconcileHost, FailIf
<1>3. /\ ctr' \in [Hosts -> SUBSET Services]
      /\ OnlyAt(h)
      /\ ctr'[h] = ctr[h] \ Take(list, k)
      /\ joined' \subseteq joined
      /\ h \in joined' => "kubelet" \notin Take(list, k)
  BY <1>1, <1>2, TakeDownFacts
<1>4. cleaned \in [Hosts -> SUBSET Dirs]
  BY <1>1
<1>5. \A g \in Hosts : g # h => cleaned[g] = files[g]
  BY <1>1
<1> HIDE DEF cleaned
<1>6. ~Fail /\ h \notin warned' \cup swallowed' => k = Len(list)
  BY <1>2
<1>7. /\ warned \subseteq warned' /\ swallowed \subseteq swallowed'
      /\ conf' = conf
      /\ files' = cleaned \/ files' = files
      /\ ~Fail => NextHost
  BY <1>2 DEF Fail
<1>8. saved' = saved /\ (Fail => faults' = faults + 1)
  BY DEF ReconcileHost, FailIf, Fail
<1> QED BY <1>1, <1>3, <1>4, <1>5, <1>6, <1>7, <1>8

\* The same of one host of a loop of "rke remove", in which an error ends the
\* run or, swallowed, the loop.
LEMMA RemovePlaneHostFacts ==
  ASSUME TypeInv, NEW stage, NEW plane, NEW list, Len(list) \in Nat,
         RemovePlaneHost(stage, plane, list)
  PROVE  /\ pc = stage /\ Current \in todo /\ Current \in Hosts
         /\ ctr' \in [Hosts -> SUBSET Services]
         /\ OnlyAt(Current)
         /\ ctr'[Current] \subseteq ctr[Current]
         /\ joined' \subseteq joined
         /\ Current \in joined' =>
               ("kubelet" \in ctr[Current] => "kubelet" \in ctr'[Current])
         /\ \/ /\ ctr'[Current] = ctr[Current] \ Take(list, Len(list))
               /\ todo' = todo \ {Current}
               /\ UNCHANGED <<pc, result, swallowed, group, failed, conf, cur,
                              warned, untracked, interrupted>>
            \/ /\ swallowed' = swallowed \cup todo
               /\ todo' = {}
               /\ UNCHANGED <<pc, result, group, failed, conf, cur, warned,
                              untracked, interrupted>>
            \/ Fail
<1>1. /\ pc = stage /\ todo # {} /\ todo \in SUBSET Hosts
      /\ ctr \in [Hosts -> SUBSET Services]
  BY DEF RemovePlaneHost, TypeInv
<1>2. Current \in todo /\ Current \in Hosts
  BY <1>1, CurrentIn
<1>3. PICK k \in 0..Len(list) :
         /\ TakeDown(Current, list, k)
         /\ \/ /\ k = Len(list)
               /\ todo' = todo \ {Current}
               /\ UNCHANGED <<pc, result, swallowed, group, failed, conf, cur,
                              warned, untracked, interrupted>>
            \/ /\ swallowed' = swallowed \cup todo
               /\ todo' = {}
               /\ UNCHANGED <<pc, result, group, failed, conf, cur, warned,
                              untracked, interrupted>>
            \/ Fail
  BY DEF RemovePlaneHost, FailIf
<1>4. /\ ctr' \in [Hosts -> SUBSET Services]
      /\ OnlyAt(Current)
      /\ ctr'[Current] = ctr[Current] \ Take(list, k)
      /\ joined' \subseteq joined
      /\ Current \in joined' => "kubelet" \notin Take(list, k)
  BY <1>1, <1>2, <1>3, TakeDownFacts
<1> QED BY <1>1, <1>2, <1>3, <1>4

-----------------------------------------------------------------------------
(* The same when nothing fails.                                             *)

\* A cluster all of whose members run has its majority.
LEMMA Majority ==
  ASSUME NEW M \in SUBSET Hosts, M # {}
  PROVE  2 * Cardinality(M) > Cardinality(M)
<1>1. IsFiniteSet(M)
  BY ConfigsAssumption, FS_Subset
<1>2. Cardinality(M) \in Nat /\ Cardinality(M) # 0
  BY <1>1, FS_CardinalityType, FS_EmptySet
<1> QED BY <1>2

\* With all members up etcd answers.
LEMMA AllUp ==
  ASSUME members \in SUBSET Hosts, members # {}, MembersUp
  PROVE  Alive = members /\ EtcdUp
<1>1. Alive = members
  BY DEF Alive, MembersUp
<1> QED BY <1>1, Majority DEF EtcdUp

\* rke that loses no track knows all hosts.
LEMMA LoseTrackFacts ==
  ASSUME NEW H \in SUBSET Hosts, LoseTrack(H), untracked \in SUBSET Hosts,
         lost \in BOOLEAN, ~lost => untracked = {}
  PROVE  /\ untracked' \in SUBSET Hosts
         /\ lost' \in BOOLEAN /\ (~lost' => untracked' = {})
  BY DEF LoseTrack

\* Without errors no run ends early before it has saved its state.
LEMMA CleanFail ==
  ASSUME StoreInv, Clean', Fail, pc # "idle"
  PROVE  pc \in AfterSave
  BY DEF StoreInv, Clean, Fail, LoseTrack

\* reconcileHost, when nothing fails, leaves etcd's other members and the other
\* hosts' API servers alone.
LEMMA ReconcileHostReach ==
  ASSUME TypeInv, StoreInv, Clean', members \in SUBSET Hosts,
         NEW h \in Hosts, NEW plane, NEW list, NEW next,
         Len(list) \in Nat, ReconcileHost(h, plane, list, next)
  PROVE  /\ Clean
         /\ pc' = next /\ todo' = todo \ {Current}
         /\ UNCHANGED <<trusted, members, saved, kubeconf, failed, conf, admin,
                        sans, warned, swallowed>>
         /\ /\ MembersUp
            /\ \/ h \notin members
               \/ /\ "etcd" \notin Take(list, Len(list))
                  /\ "etcd" \notin CleanUpPaths(plane, cur[h])
            => MembersUp'
         /\ /\ Serves
            /\ kubeconf # h \/ "api" \notin Take(list, Len(list))
            => Serves'
<1> DEFINE gone == Take(list, Len(list))
           paths == CleanUpPaths(plane, cur[h])
<1>1. ctr \in [Hosts -> SUBSET Services] /\ files \in [Hosts -> SUBSET Dirs]
  BY DEF TypeInv
<1>2. faults \in Nat /\ faults' = 0 /\ ~lost'
  BY DEF StoreInv, Clean
<1>3. /\ TakeDown(h, list, Len(list))
      /\ files' = [files EXCEPT ![h] = @ \ paths]
      /\ pc' = next /\ todo' = todo \ {Current}
      /\ UNCHANGED <<faults, warned, swallowed, failed, conf, admin, sans,
                     lost>>
  BY <1>2 DEF ReconcileHost, FailIf
<1>4. UNCHANGED <<trusted, members, saved, kubeconf>>
  BY DEF ReconcileHost
<1>5. ctr' = [ctr EXCEPT ![h] = @ \ gone] /\ Port6443
  BY <1>3 DEF TakeDown
<1> HIDE DEF gone, paths
<1>6. ASSUME MembersUp,
             h \notin members \/ ("etcd" \notin gone /\ "etcd" \notin paths)
      PROVE  MembersUp'
  BY <1>1, <1>3, <1>4, <1>5, <1>6 DEF MembersUp
<1>7. ASSUME Serves, kubeconf # h \/ "api" \notin gone
      PROVE  Serves'
  BY <1>1, <1>4, <1>5, <1>7 DEF Serves, Port6443
<1>8. Clean
  BY <1>2, <1>3, <1>4 DEF Clean
<1> QED BY <1>3, <1>4, <1>6, <1>7, <1>8 DEF gone, paths

-----------------------------------------------------------------------------
(* Every step preserves the invariant, one lemma for each part of it.       *)

\* Every step keeps the types, and a run in progress has a valid configuration.
LEMMA TypeStep == UpInv /\ [Next]_vars => TypeInv'
<1> SUFFICES ASSUME UpInv, [Next]_vars PROVE TypeInv'
  OBVIOUS
<1> USE DEF LoseTrack,
            UpInv, TypeInv, LoopInv, Stages, ReconcileStages, EtcdLoop, AddLoop,
            WorkerLoop, ControlLoop, DeployStages, AfterSave, RemoveStages,
            hostVars, clusterVars, procVars, history, HostsOf, ControlHosts,
            EtcdHosts, Plane, GetToDeleteHosts, GetToAddHosts, NoConfig, Dirs
<1>b. todo # {} => Current \in todo
  BY CurrentIn
<1>1. ASSUME NEW c \in Configs, StartUp(c) PROVE TypeInv'
  BY <1>1, ConfigsAssumption DEF StartUp
<1>2. CASE StartRemove
  BY <1>2 DEF StartRemove
<1>3. CASE GetClusterState
  BY <1>3 DEF GetClusterState
<1>4. CASE UseFetchedCertificates
  BY <1>4 DEF UseFetchedCertificates, Goto
<1>5. CASE RecoverOrGenerate
  BY <1>5 DEF RecoverOrGenerate, Goto
<1>6. CASE ReconcileEtcdMember
  BY <1>6 DEF ReconcileEtcdMember, Goto
<1>7. CASE ReconcileEtcdNode
  BY <1>7 DEF ReconcileEtcdNode, Goto, NodesAfterDelete, DeleteNodeWorks
<1>8. CASE ReconcileEtcdHost
  <2> DEFINE list == RemoveEtcdPlane(cur[Current], FALSE)
  <2>1. Len(list) \in Nat
    BY RemoveEtcdPlaneTaken
  <2>2. ReconcileHost(Current, "etcd", list, "etcd_member")
    BY <1>8 DEF ReconcileEtcdHost
  <2> HIDE DEF list
  <2>3. Current \in todo /\ Current \in Hosts
    BY <1>8, <1>b DEF ReconcileEtcdHost
  <2>4. /\ ctr' \in [Hosts -> SUBSET Services]
        /\ files' \in [Hosts -> SUBSET Dirs]
        /\ UNCHANGED <<saved, conf>>
        /\ ~Fail => /\ pc' = "etcd_member" /\ todo' = todo \ {Current}
                    /\ UNCHANGED <<group, failed, cur>>
    BY <2>1, <2>2, <2>3, ReconcileHostFacts
  <2>5. pc # "idle" /\ pc \notin RemoveStages
    BY <1>8 DEF ReconcileEtcdHost
  <2> QED BY <2>4, <2>5 DEF Fail
<1>9. CASE EtcdDeleted
  BY <1>9 DEF EtcdDeleted, Goto
<1>10. CASE AddEtcdMember
  <2>1. files' \in [Hosts -> SUBSET Dirs]
    BY <1>10 DEF AddEtcdMember
  <2> QED BY <1>10, <2>1 DEF AddEtcdMember, Goto, FailIf, Fail
<1>11. CASE ReloadEtcdCluster
  <2>1. /\ files' \in [Hosts -> SUBSET Dirs]
        /\ ctr' \in [Hosts -> SUBSET Services]
    BY <1>11 DEF ReloadEtcdCluster, Services
  <2>2. CASE Fail
    BY <1>11, <2>1, <2>2 DEF ReloadEtcdCluster, Fail
  <2>3. CASE /\ pc' = "etcd_add" /\ todo' = todo \ {Current}
             /\ UNCHANGED <<group, failed, conf, cur>>
    BY <1>11, <2>1, <2>3 DEF ReloadEtcdCluster
  <2> QED BY <1>11, <2>2, <2>3 DEF ReloadEtcdCluster, Goto, FailIf
<1>12. CASE EtcdAdded
  BY <1>12 DEF EtcdAdded, Goto
<1>13. CASE ReconcileWorkerNode
  <2>1. CASE Fail
    BY <1>13, <2>1 DEF ReconcileWorkerNode, Fail
  <2>2. CASE /\ pc' = "worker_host"
             /\ cur' = [cur EXCEPT ![Current] = @ \ {"worker"}]
             /\ UNCHANGED <<todo, group, failed, conf>>
    BY <1>13, <2>2 DEF ReconcileWorkerNode
  <2> QED BY <1>13, <2>1, <2>2 DEF ReconcileWorkerNode, Goto, FailIf
<1>14. CASE ReconcileWorkerHost
  <2> DEFINE list == RemoveWorkerPlane(cur[Current], FALSE)
  <2>1. Len(list) \in Nat
    BY RemoveWorkerPlaneTaken
  <2>2. ReconcileHost(Current, "worker", list, "worker_node")
    BY <1>14 DEF ReconcileWorkerHost
  <2> HIDE DEF list
  <2>3. Current \in todo /\ Current \in Hosts
    BY <1>14, <1>b DEF ReconcileWorkerHost
  <2>4. /\ ctr' \in [Hosts -> SUBSET Services]
        /\ files' \in [Hosts -> SUBSET Dirs]
        /\ UNCHANGED <<saved, conf>>
        /\ ~Fail => /\ pc' = "worker_node" /\ todo' = todo \ {Current}
                    /\ UNCHANGED <<group, failed, cur>>
    BY <2>1, <2>2, <2>3, ReconcileHostFacts
  <2>5. pc # "idle" /\ pc \notin RemoveStages
    BY <1>14 DEF ReconcileWorkerHost
  <2> QED BY <2>4, <2>5 DEF Fail
<1>15. CASE WorkersDeleted
  BY <1>15 DEF WorkersDeleted, Goto
<1>16. CASE ReconcileControlNode
  BY <1>16 DEF ReconcileControlNode, Goto, FailIf, Fail, NodesAfterDelete
<1>17. CASE ReconcileControlHost
  <2>1. Len(RemoveControlPlane(cur[Current])) \in Nat
    BY RemoveControlPlaneTaken
  <2>2. ReconcileHost(Current, "controlplane", RemoveControlPlane(cur[Current]),
                      "control_node")
    BY <1>17 DEF ReconcileControlHost
  <2>3. Current \in todo /\ Current \in Hosts
    BY <1>17, <1>b DEF ReconcileControlHost
  <2>4. /\ ctr' \in [Hosts -> SUBSET Services]
        /\ files' \in [Hosts -> SUBSET Dirs]
        /\ UNCHANGED <<saved, conf>>
        /\ ~Fail => /\ pc' = "control_node" /\ todo' = todo \ {Current}
                    /\ UNCHANGED <<group, failed, cur>>
    BY <2>1, <2>2, <2>3, ReconcileHostFacts
  <2>5. pc # "idle" /\ pc \notin RemoveStages
    BY <1>17 DEF ReconcileControlHost
  <2> QED BY <2>4, <2>5 DEF Fail
<1>18. CASE ControlDeleted
  BY <1>18 DEF ControlDeleted, Goto
<1>19. CASE CertificatesDeployed
  BY <1>19 DEF CertificatesDeployed, Wait, FailIf, Fail, Goto
<1>20. CASE RunEtcd
  BY <1>20 DEF RunEtcd, Services
<1>21. CASE EtcdRunning
  BY <1>21 DEF EtcdRunning, Goto
<1>22. CASE ControlRunning
  BY <1>22 DEF ControlRunning, Wait, FailIf, Fail, Goto
<1>23. CASE SaveClusterState
  BY <1>23 DEF SaveClusterState, Goto, FailIf, Fail
<1>24. ASSUME NEW h \in Hosts, DeployCertificates(h) PROVE TypeInv'
  BY <1>24 DEF DeployCertificates
<1>25. ASSUME NEW h \in Hosts, DoDeployControlHost(h) PROVE TypeInv'
  BY <1>25, DoDeployControlHostFacts DEF DoDeployControlHost
<1>26. ASSUME NEW h \in Hosts, DoDeployWorkerPlane(h) PROVE TypeInv'
  BY <1>26, DoDeployWorkerPlaneFacts DEF DoDeployWorkerPlane
<1>27. CASE WorkerStageDone("worker_etcd", "worker_control")
  BY <1>27 DEF WorkerStageDone, WorkerStages, Wait, FailIf, Fail, Goto
<1>28. CASE WorkerStageDone("worker_control", "worker_worker")
  BY <1>28 DEF WorkerStageDone, WorkerStages, Wait, FailIf, Fail, Goto
<1>29. CASE WorkerStageDone("worker_worker", "sync")
  BY <1>29 DEF WorkerStageDone, Wait, FailIf, Fail, Goto
<1>30. CASE FinishUp
  BY <1>30 DEF FinishUp, FailIf, Fail
<1>31. CASE RemovePlaneHost("rm_worker", "worker",
                            RemoveWorkerPlane(conf[Current], TRUE))
  <2>1. Len(RemoveWorkerPlane(conf[Current], TRUE)) \in Nat
    BY RemoveWorkerPlaneTaken
  <2> QED BY <1>31, <2>1, RemovePlaneHostFacts DEF RemovePlaneHost, Fail
<1>32. CASE RemovePlaneHost("rm_control", "controlplane",
                            RemoveControlPlane(conf[Current]))
  <2>1. Len(RemoveControlPlane(conf[Current])) \in Nat
    BY RemoveControlPlaneTaken
  <2> QED BY <1>32, <2>1, RemovePlaneHostFacts DEF RemovePlaneHost, Fail
<1>33. CASE RemovePlaneHost("rm_etcd", "etcd",
                            RemoveEtcdPlane(conf[Current], TRUE))
  <2>1. Len(RemoveEtcdPlane(conf[Current], TRUE)) \in Nat
    BY RemoveEtcdPlaneTaken
  <2> QED BY <1>33, <2>1, RemovePlaneHostFacts DEF RemovePlaneHost, Fail
<1>34. CASE RemoveStageDone("rm_worker", "rm_control", ControlHosts(conf))
  BY <1>34 DEF RemoveStageDone, Goto
<1>35. CASE RemoveStageDone("rm_control", "rm_etcd", EtcdHosts(conf))
  BY <1>35 DEF RemoveStageDone, Goto
<1>36. CASE RemoveStageDone("rm_etcd", "rm_clean", HostsOf(conf))
  BY <1>36 DEF RemoveStageDone, Goto
<1>37. CASE CleanUpHost
  BY <1>37 DEF CleanUpHost
<1>38. CASE FinishRemove
  BY <1>38 DEF FinishRemove
<1>39. CASE Abort
  BY <1>39 DEF Abort, FailIf, Fail
<1>40. ASSUME NEW h \in Hosts, KubeletRegisters(h) PROVE TypeInv'
  BY <1>40 DEF KubeletRegisters
<1>41. CASE UNCHANGED vars
  BY <1>41 DEF vars
<1> QED
  BY <1>1, <1>2, <1>3, <1>4, <1>5, <1>6, <1>7, <1>8, <1>9, <1>10, <1>11, <1>12,
     <1>13, <1>14, <1>15, <1>16, <1>17, <1>18, <1>19, <1>20, <1>21, <1>22,
     <1>23, <1>24, <1>25, <1>26, <1>27, <1>28, <1>29, <1>30, <1>31, <1>32,
     <1>33, <1>34, <1>35, <1>36, <1>37, <1>38, <1>39, <1>40, <1>41
     DEF Next, RkeStep, Reconcile, DeployPlanes, ClusterRemove, RemovePlanes

\* The loops move through hosts that lose, or get, a role, and only the loop
\* over the workers changes the fetched state.
LEMMA LoopStep == UpInv /\ [Next]_vars => LoopInv'
<1> SUFFICES ASSUME UpInv, [Next]_vars PROVE LoopInv'
  OBVIOUS
<1> USE DEF LoseTrack, UpInv, TypeInv, LoopInv, CurAt, WorkerStages, Stages,
            ReconcileStages, EtcdLoop, AddLoop, WorkerLoop, ControlLoop,
            DeployStages, AfterSave, RemoveStages, hostVars, clusterVars,
            procVars, history, HostsOf, ControlHosts, EtcdHosts, Plane,
            GetToDeleteHosts, GetToAddHosts, NoConfig
<1>a. TypeInv' BY TypeStep
<1>b. todo # {} => Current \in todo /\ FirstHost(todo) \in todo
  BY CurrentIn DEF UpInv, TypeInv
<1>c. pc \notin {"control_node", "control_host", "rm_clean"} =>
        Current = FirstHost(todo)
  BY DEF Current
<1>1. ASSUME NEW c \in Configs, StartUp(c) PROVE LoopInv'
  BY <1>1 DEF StartUp
<1>2. CASE StartRemove
  BY <1>2 DEF StartRemove
<1>3. CASE GetClusterState
  BY <1>3 DEF GetClusterState
<1>4. CASE UseFetchedCertificates
  BY <1>4 DEF UseFetchedCertificates, Goto
<1>5. CASE RecoverOrGenerate
  BY <1>5 DEF RecoverOrGenerate, Goto
<1>6. CASE ReconcileEtcdMember
  BY <1>6, <1>a, <1>b, <1>c DEF ReconcileEtcdMember, Goto
<1>7. CASE ReconcileEtcdNode
  BY <1>7, <1>a, <1>b, <1>c DEF ReconcileEtcdNode, Goto, NodesAfterDelete,
     DeleteNodeWorks
<1>8. CASE ReconcileEtcdHost
  BY <1>8, <1>a, <1>b, <1>c DEF ReconcileEtcdHost, ReconcileHost, TakeDown,
     FailIf, Fail
<1>9. CASE EtcdDeleted
  BY <1>9 DEF EtcdDeleted, Goto
<1>10. CASE AddEtcdMember
  BY <1>10, <1>a, <1>b, <1>c DEF AddEtcdMember, Goto, FailIf, Fail
<1>11. CASE ReloadEtcdCluster
  BY <1>11, <1>a, <1>b, <1>c DEF ReloadEtcdCluster, Goto, FailIf, Fail,
     LoopPrefixes, ReadyHosts
<1>12. CASE EtcdAdded
  BY <1>12 DEF EtcdAdded, Goto
<1>13. CASE ReconcileWorkerNode
  BY <1>13, <1>a, <1>b, <1>c DEF ReconcileWorkerNode, Goto, FailIf, Fail,
     NodesAfterDelete
<1>14. CASE ReconcileWorkerHost
  BY <1>14, <1>a, <1>b, <1>c DEF ReconcileWorkerHost, ReconcileHost, TakeDown,
     FailIf, Fail
<1>15. CASE WorkersDeleted
  BY <1>15 DEF WorkersDeleted, Goto
<1>16. CASE ReconcileControlNode
  BY <1>16, <1>a, <1>b, <1>c DEF ReconcileControlNode, Goto, FailIf, Fail,
     NodesAfterDelete
<1>17. CASE ReconcileControlHost
  BY <1>17, <1>a, <1>b, <1>c DEF ReconcileControlHost, ReconcileHost, TakeDown,
     FailIf, Fail
<1>18. CASE ControlDeleted
  BY <1>18 DEF ControlDeleted, Goto
<1>19. CASE CertificatesDeployed
  BY <1>19 DEF CertificatesDeployed, Wait, FailIf, Fail, Goto
<1>20. CASE RunEtcd
  BY <1>20, <1>a, <1>b, <1>c DEF RunEtcd
<1>21. CASE EtcdRunning
  BY <1>21 DEF EtcdRunning, Goto
<1>22. CASE ControlRunning
  BY <1>22 DEF ControlRunning, Wait, FailIf, Fail, Goto
<1>23. CASE SaveClusterState
  BY <1>23 DEF SaveClusterState, Goto, FailIf, Fail
<1>24. ASSUME NEW h \in Hosts, DeployCertificates(h) PROVE LoopInv'
  BY <1>24 DEF DeployCertificates
<1>25. ASSUME NEW h \in Hosts, DoDeployControlHost(h) PROVE LoopInv'
  BY <1>25 DEF DoDeployControlHost, Deploy
<1>26. ASSUME NEW h \in Hosts, DoDeployWorkerPlane(h) PROVE LoopInv'
  BY <1>26 DEF DoDeployWorkerPlane, Deploy
<1>27. CASE WorkerStageDone("worker_etcd", "worker_control")
  BY <1>27 DEF WorkerStageDone, WorkerStages, Wait, FailIf, Fail, Goto
<1>28. CASE WorkerStageDone("worker_control", "worker_worker")
  BY <1>28 DEF WorkerStageDone, WorkerStages, Wait, FailIf, Fail, Goto
<1>29. CASE WorkerStageDone("worker_worker", "sync")
  BY <1>29 DEF WorkerStageDone, Wait, FailIf, Fail, Goto
<1>30. CASE FinishUp
  BY <1>30 DEF FinishUp, FailIf, Fail
<1>31. CASE RemovePlaneHost("rm_worker", "worker",
                            RemoveWorkerPlane(conf[Current], TRUE))
  <2>1. Len(RemoveWorkerPlane(conf[Current], TRUE)) \in Nat
    BY RemoveWorkerPlaneTaken
  <2> QED BY <1>31, <2>1, RemovePlaneHostFacts DEF RemovePlaneHost, Fail
<1>32. CASE RemovePlaneHost("rm_control", "controlplane",
                            RemoveControlPlane(conf[Current]))
  <2>1. Len(RemoveControlPlane(conf[Current])) \in Nat
    BY RemoveControlPlaneTaken
  <2> QED BY <1>32, <2>1, RemovePlaneHostFacts DEF RemovePlaneHost, Fail
<1>33. CASE RemovePlaneHost("rm_etcd", "etcd",
                            RemoveEtcdPlane(conf[Current], TRUE))
  <2>1. Len(RemoveEtcdPlane(conf[Current], TRUE)) \in Nat
    BY RemoveEtcdPlaneTaken
  <2> QED BY <1>33, <2>1, RemovePlaneHostFacts DEF RemovePlaneHost, Fail
<1>34. CASE RemoveStageDone("rm_worker", "rm_control", ControlHosts(conf))
  BY <1>34 DEF RemoveStageDone, Goto
<1>35. CASE RemoveStageDone("rm_control", "rm_etcd", EtcdHosts(conf))
  BY <1>35 DEF RemoveStageDone, Goto
<1>36. CASE RemoveStageDone("rm_etcd", "rm_clean", HostsOf(conf))
  BY <1>36 DEF RemoveStageDone, Goto
<1>37. CASE CleanUpHost
  BY <1>37, <1>a, <1>b, <1>c DEF CleanUpHost
<1>38. CASE FinishRemove
  BY <1>38 DEF FinishRemove
<1>39. CASE Abort
  BY <1>39 DEF Abort, FailIf, Fail
<1>40. ASSUME NEW h \in Hosts, KubeletRegisters(h) PROVE LoopInv'
  BY <1>40 DEF KubeletRegisters
<1>41. CASE UNCHANGED vars
  BY <1>41 DEF vars
<1> QED
  BY <1>1, <1>2, <1>3, <1>4, <1>5, <1>6, <1>7, <1>8, <1>9, <1>10, <1>11, <1>12,
     <1>13, <1>14, <1>15, <1>16, <1>17, <1>18, <1>19, <1>20, <1>21, <1>22,
     <1>23, <1>24, <1>25, <1>26, <1>27, <1>28, <1>29, <1>30, <1>31, <1>32,
     <1>33, <1>34, <1>35, <1>36, <1>37, <1>38, <1>39, <1>40, <1>41
     DEF Next, RkeStep, Reconcile, DeployPlanes, ClusterRemove, RemovePlanes

\* A run that is killed while it reconciles has only taken services down, and
\* loses track of the hosts it was to deploy to.
LEMMA KilledFits ==
  ASSUME UpInv, pc \in ReconcileStages, Fail, saved' = saved,
         \A g \in Hosts : ctr'[g] \subseteq ctr[g]
  PROVE  BoundInv'
<1>1. pc \notin AfterSave
  BY DEF ReconcileStages, EtcdLoop, AddLoop, WorkerLoop, ControlLoop, AfterSave
<1>2. /\ pc' = "idle" /\ result' = "err"
      /\ Hosts \ Excused' \subseteq {g \in Hosts \ Excused : conf[g] = {}}
  BY <1>1 DEF Fail, LoseTrack, Excused, HostsOf
<1>3. ASSUME NEW g \in Hosts \ Excused' PROVE Fits(g, saved[g])'
  <2>1. LoopFits(g) /\ conf[g] = {} /\ ctr'[g] \subseteq ctr[g]
    BY <1>2 DEF UpInv, BoundInv
  <2> QED BY <2>1 DEF Fits, LoopFits
<1> QED BY <1>2, <1>3
        DEF BoundInv, ReconcileStages, EtcdLoop, AddLoop, WorkerLoop,
            ControlLoop, DeployStages, RemoveStages

\* No step brings a service to a host that the stage does not allow there: what
\* reconcileHost takes down is what the host's changed roles no longer allow.
LEMMA BoundStep == UpInv /\ [Next]_vars => BoundInv'
<1> SUFFICES ASSUME UpInv, [Next]_vars PROVE BoundInv'
  OBVIOUS
<1> USE DEF LoseTrack,
            UpInv, TypeInv, LoopInv, BoundInv, Excused, Fits, LoopFits,
            DeployFits, RemoveFits, EtcdDone, WorkerDone, ControlDone,
            ProxyKept, Stages, ReconcileStages, EtcdLoop, AddLoop, WorkerLoop,
            ControlLoop, DeployStages, AfterSave, RemoveStages, hostVars,
            clusterVars, procVars, history, HostsOf, ControlHosts, EtcdHosts,
            Plane, GetToDeleteHosts, GetToAddHosts, NoConfig
<1>a. TypeInv'
  BY TypeStep
<1>b. todo # {} => Current \in todo /\ FirstHost(todo) \in todo
  BY CurrentIn DEF UpInv, TypeInv
<1>c. pc \notin {"control_node", "control_host", "rm_clean"} =>
        Current = FirstHost(todo)
  BY DEF Current
<1>1. ASSUME NEW c \in Configs, StartUp(c) PROVE BoundInv'
  BY <1>1 DEF StartUp
<1>2. CASE StartRemove
  BY <1>2 DEF StartRemove
<1>3. CASE GetClusterState
  BY <1>3 DEF GetClusterState
<1>4. CASE UseFetchedCertificates
  BY <1>4 DEF UseFetchedCertificates, Goto
<1>5. CASE RecoverOrGenerate
  BY <1>5 DEF RecoverOrGenerate, Goto
<1>6. CASE ReconcileEtcdMember
  BY <1>6, <1>a, <1>b, <1>c DEF ReconcileEtcdMember, Goto
<1>7. CASE ReconcileEtcdNode
  BY <1>7, <1>a, <1>b, <1>c DEF ReconcileEtcdNode, Goto, NodesAfterDelete,
     DeleteNodeWorks
<1>8. CASE ReconcileEtcdHost
  <2> DEFINE h == Current
             list == RemoveEtcdPlane(cur[Current], FALSE)
  <2>0. pc = "etcd_host" /\ h \in todo /\ h \in Hosts /\ cur[h] = CurAt(h)
    BY <1>8, <1>b DEF ReconcileEtcdHost
  <2>1. /\ pc = "etcd_host" /\ h \in todo /\ h \in Hosts
        /\ todo \in SUBSET Hosts
        /\ cur[h] = saved[h]
    BY <2>0, <1>c DEF CurAt
  <2>2. /\ Len(list) \in Nat
        /\ Take(list, Len(list)) =
              {"etcd"} \cup
              IF {"worker", "controlplane"} \subseteq cur[h] THEN {}
              ELSE WorkerSet
    BY RemoveEtcdPlaneTaken
  <2>3. ReconcileHost(h, "etcd", list, "etcd_member")
    BY <1>8 DEF ReconcileEtcdHost
  <2>4. saved' = saved
    BY <2>3 DEF ReconcileHost
  <2> HIDE DEF h, list
  <2>5. /\ OnlyAt(h)
        /\ ctr'[h] \subseteq ctr[h]
        /\ warned \subseteq warned' /\ swallowed \subseteq swallowed'
        /\ conf' = conf
        /\ ~Fail =>
              /\ pc' = "etcd_member" /\ todo' = todo \ {h}
              /\ UNCHANGED <<untracked, result>>
              /\ h \notin warned' \cup swallowed' =>
                    ctr'[h] = ctr[h] \ Take(list, Len(list))
    BY <2>1, <2>2, <2>3, ReconcileHostFacts DEF h
  <2>6. ASSUME NEW g \in Hosts \ Excused', ~Fail PROVE LoopFits(g)'
    <3>1. LoopFits(g)
      BY <2>1, <2>5, <2>6
    <3>2. CASE g # h
      <4>1. ctr'[g] = ctr[g]
        BY <2>5, <3>2 DEF OnlyAt
      <4> QED BY <3>1, <3>2, <4>1, <2>1, <2>4, <2>5, <2>6
    <3>3. CASE g = h
      <4>1. ctr'[h] = ctr[h] \
              ({"etcd"} \cup
               IF {"worker", "controlplane"} \subseteq cur[h] THEN {}
               ELSE WorkerSet)
        BY <2>2, <2>5, <2>6, <3>3
      <4> QED BY <3>1, <3>3, <4>1, <2>1, <2>4, <2>5, <2>6
             DEF WorkerSet, NodeServices, MasterServices
    <3> QED BY <3>2, <3>3
  <2>7. CASE Fail
    BY <2>1, <2>4, <2>5, <2>7, KilledFits DEF OnlyAt
  <2> QED BY <2>1, <2>5, <2>6, <2>7
<1>9. CASE EtcdDeleted
  BY <1>9 DEF EtcdDeleted, Goto
<1>10. CASE AddEtcdMember
  BY <1>10, <1>a, <1>b, <1>c DEF AddEtcdMember, Goto, FailIf, Fail
<1>11. CASE ReloadEtcdCluster
  <2>1. PICK run \in SUBSET ReadyHosts :
           /\ ctr' = [h \in Hosts |-> IF h \in run THEN ctr[h] \cup {"etcd"}
                                      ELSE ctr[h]]
           /\ \/ /\ pc' = "etcd_add" /\ todo' \subseteq todo
                 /\ UNCHANGED <<result, conf, warned, swallowed, untracked>>
              \/ Fail
    BY <1>11 DEF ReloadEtcdCluster, LoopPrefixes, Goto, FailIf
  <2>2. pc = "etcd_reload" /\ saved' = saved /\ conf' = conf
    BY <1>11 DEF ReloadEtcdCluster, Goto, FailIf, Fail
  <2>3. \A h \in run : "etcd" \in conf[h]
    BY DEF ReadyHosts
  <2>4. \A s \in MasterServices \cup NodeServices \cup {"nginx"} :
           \A h \in Hosts : s \in ctr'[h] <=> s \in ctr[h]
    BY <2>1 DEF MasterServices, NodeServices
  <2>5. ASSUME NEW g \in Hosts
        PROVE  /\ MasterServices \cap ctr'[g] = MasterServices \cap ctr[g]
               /\ NodeServices \cap ctr'[g] = NodeServices \cap ctr[g]
               /\ "nginx" \in ctr'[g] <=> "nginx" \in ctr[g]
               /\ "etcd" \in ctr'[g] => "etcd" \in ctr[g] \/ "etcd" \in conf[g]
    BY <2>1, <2>3, <2>4
  <2>6. CASE Fail
    <3>1. /\ pc' = "idle" /\ result' = "err"
          /\ Hosts \ Excused' \subseteq {g \in Hosts \ Excused : conf[g] = {}}
      BY <2>2, <2>6 DEF Fail
    <3> QED BY <2>2, <2>5, <3>1
  <2>7. CASE ~Fail
    BY <2>1, <2>2, <2>5, <2>7
  <2> QED BY <2>6, <2>7
<1>12. CASE EtcdAdded
  BY <1>12 DEF EtcdAdded, Goto, CurAt
<1>13. CASE ReconcileWorkerNode
  BY <1>13, <1>a, <1>b, <1>c DEF ReconcileWorkerNode, Goto, FailIf, Fail,
     NodesAfterDelete
<1>14. CASE ReconcileWorkerHost
  <2> DEFINE h == Current
             list == RemoveWorkerPlane(cur[Current], FALSE)
  <2>0. pc = "worker_host" /\ h \in todo /\ h \in Hosts /\ cur[h] = CurAt(h)
    BY <1>14, <1>b DEF ReconcileWorkerHost
  <2>1. /\ pc = "worker_host" /\ h \in todo /\ h \in Hosts
        /\ todo \in SUBSET Hosts
        /\ cur[h] = saved[h] \ {"worker"}
    BY <2>0, <1>c DEF CurAt
  <2>2. /\ Len(list) \in Nat
        /\ Take(list, Len(list)) =
              IF "controlplane" \in cur[h] THEN {} ELSE WorkerSet
    BY RemoveWorkerPlaneTaken
  <2>3. ReconcileHost(h, "worker", list, "worker_node")
    BY <1>14 DEF ReconcileWorkerHost
  <2>4. saved' = saved
    BY <2>3 DEF ReconcileHost
  <2> HIDE DEF h, list
  <2>5. /\ OnlyAt(h)
        /\ ctr'[h] \subseteq ctr[h]
        /\ warned \subseteq warned' /\ swallowed \subseteq swallowed'
        /\ conf' = conf
        /\ ~Fail =>
              /\ pc' = "worker_node" /\ todo' = todo \ {h}
              /\ UNCHANGED <<untracked, result>>
              /\ h \notin warned' \cup swallowed' =>
                    ctr'[h] = ctr[h] \ Take(list, Len(list))
    BY <2>1, <2>2, <2>3, ReconcileHostFacts DEF h
  <2>6. ASSUME NEW g \in Hosts \ Excused', ~Fail PROVE LoopFits(g)'
    <3>1. LoopFits(g)
      BY <2>1, <2>5, <2>6
    <3>2. CASE g # h
      <4>1. ctr'[g] = ctr[g]
        BY <2>5, <3>2 DEF OnlyAt
      <4> QED BY <3>1, <3>2, <4>1, <2>1, <2>4, <2>5, <2>6
    <3>3. CASE g = h
      <4>1. ctr'[h] = ctr[h] \
              IF "controlplane" \in cur[h] THEN {} ELSE WorkerSet
        BY <2>2, <2>5, <2>6, <3>3
      <4> QED BY <3>1, <3>3, <4>1, <2>1, <2>4, <2>5, <2>6
             DEF WorkerSet, NodeServices, MasterServices
    <3> QED BY <3>2, <3>3
  <2>7. CASE Fail
    BY <2>1, <2>4, <2>5, <2>7, KilledFits DEF OnlyAt
  <2> QED BY <2>1, <2>5, <2>6, <2>7
<1>15. CASE WorkersDeleted
  BY <1>15 DEF WorkersDeleted, Goto, CurAt
<1>16. CASE ReconcileControlNode
  BY <1>16, <1>a, <1>b, <1>c DEF ReconcileControlNode, Goto, FailIf, Fail,
     NodesAfterDelete
<1>17. CASE ReconcileControlHost
  <2> DEFINE h == Current
             list == RemoveControlPlane(cur[Current])
  <2>0. pc = "control_host" /\ h \in todo /\ h \in Hosts /\ cur[h] = CurAt(h)
    BY <1>17, <1>b DEF ReconcileControlHost
  <2>1. /\ pc = "control_host" /\ h \in todo /\ h \in Hosts
        /\ todo \in SUBSET Hosts
        /\ "worker" \in cur[h] <=> "worker" \in saved[h] \cap conf[h]
    BY <2>0, <1>c DEF CurAt
  <2>2. /\ Len(list) \in Nat
        /\ Take(list, Len(list)) =
              MasterServices \cup
              IF "worker" \in cur[h] THEN {} ELSE NodeServices
    BY RemoveControlPlaneTaken
  <2>3. ReconcileHost(h, "controlplane", list, "control_node")
    BY <1>17 DEF ReconcileControlHost
  <2>4. saved' = saved
    BY <2>3 DEF ReconcileHost
  <2> HIDE DEF h, list
  <2>5. /\ OnlyAt(h)
        /\ ctr'[h] \subseteq ctr[h]
        /\ warned \subseteq warned' /\ swallowed \subseteq swallowed'
        /\ conf' = conf
        /\ ~Fail =>
              /\ pc' = "control_node" /\ todo' = todo \ {h}
              /\ UNCHANGED <<untracked, result>>
              /\ h \notin warned' \cup swallowed' =>
                    ctr'[h] = ctr[h] \ Take(list, Len(list))
    BY <2>1, <2>2, <2>3, ReconcileHostFacts DEF h
  <2>6. ASSUME NEW g \in Hosts \ Excused', ~Fail PROVE LoopFits(g)'
    <3>1. LoopFits(g)
      BY <2>1, <2>5, <2>6
    <3>2. CASE g # h
      <4>1. ctr'[g] = ctr[g]
        BY <2>5, <3>2 DEF OnlyAt
      <4> QED BY <3>1, <3>2, <4>1, <2>1, <2>4, <2>5, <2>6
    <3>3. CASE g = h
      <4>1. ctr'[h] = ctr[h] \
              (MasterServices \cup
               IF "worker" \in cur[h] THEN {} ELSE NodeServices)
        BY <2>2, <2>5, <2>6, <3>3
      <4> QED BY <3>1, <3>3, <4>1, <2>1, <2>4, <2>5, <2>6
             DEF WorkerSet, NodeServices, MasterServices
    <3> QED BY <3>2, <3>3
  <2>7. CASE Fail
    BY <2>1, <2>4, <2>5, <2>7, KilledFits DEF OnlyAt
  <2> QED BY <2>1, <2>5, <2>6, <2>7
<1>18. CASE ControlDeleted
  <2>1. /\ pc = "control_node" /\ todo = {} /\ pc' = "certs"
        /\ UNCHANGED <<ctr, conf, warned, swallowed, untracked, result>>
    BY <1>18 DEF ControlDeleted, Goto
  <2>2. ASSUME NEW g \in Hosts \ Excused PROVE DeployFits(g)
    <3>1. LoopFits(g) /\ saved[g] \subseteq Roles
      BY <2>1
    <3>2. saved[g] # {} =>
             "etcd" \in saved[g] \/ "controlplane" \in saved[g]
             \/ "worker" \in saved[g]
      BY <3>1 DEF Roles
    <3> QED BY <2>1, <3>1, <3>2
  <2> QED BY <2>1, <2>2
<1>19. CASE CertificatesDeployed
  BY <1>19 DEF CertificatesDeployed, Wait, FailIf, Fail, Goto
<1>20. CASE RunEtcd
  <2>1. /\ pc = "etcd_run" /\ Current \in todo /\ "etcd" \in conf[Current]
        /\ Current \in Hosts
        /\ ctr' = [ctr EXCEPT ![Current] = ctr[Current] \cup {"etcd"}]
        /\ UNCHANGED <<pc, conf, warned, swallowed, untracked, result>>
    BY <1>20, <1>b DEF RunEtcd
  <2>2. ASSUME NEW g \in Hosts
        PROVE  /\ MasterServices \cap ctr'[g] = MasterServices \cap ctr[g]
               /\ NodeServices \cap ctr'[g] = NodeServices \cap ctr[g]
               /\ "nginx" \in ctr'[g] <=> "nginx" \in ctr[g]
               /\ "etcd" \in ctr'[g] => "etcd" \in ctr[g] \/ "etcd" \in conf[g]
    BY <2>1 DEF MasterServices, NodeServices
  <2> QED BY <2>1, <2>2
<1>21. CASE EtcdRunning
  BY <1>21 DEF EtcdRunning, Goto
<1>22. CASE ControlRunning
  BY <1>22 DEF ControlRunning, Wait, FailIf, Fail, Goto
<1>23. CASE SaveClusterState
  <2>1. CASE Fail /\ UNCHANGED <<ctr, saved, conf>>
    BY <1>23, <2>1 DEF Fail, SaveClusterState
  <2>2. CASE /\ pc' = "worker_etcd" /\ saved' = conf
             /\ warned' = warned \ Recovered
             /\ swallowed' = swallowed \ Recovered
             /\ untracked' = untracked \ Recovered
             /\ UNCHANGED <<ctr, conf, result>>
    <3>1. ASSUME NEW g \in Hosts \ Excused PROVE Fits(g, conf[g])
      BY <1>23 DEF SaveClusterState, ProxyInv
    <3>2. ASSUME NEW g \in Hosts \ Excused' PROVE Fits(g, conf[g])
      BY <2>2, <3>1 DEF Recovered
    <3>3. result' # "removed"
      BY <1>23, <2>2 DEF SaveClusterState
    <3> QED BY <2>2, <3>2, <3>3
  <2> QED BY <1>23, <2>1, <2>2 DEF SaveClusterState, Goto, FailIf, Fail
<1>24. ASSUME NEW h \in Hosts, DeployCertificates(h) PROVE BoundInv'
  BY <1>24 DEF DeployCertificates
<1>25. ASSUME NEW h \in Hosts, DoDeployControlHost(h) PROVE BoundInv'
  <2>1. /\ pc = "control_run" /\ "controlplane" \in conf[h]
        /\ UNCHANGED <<pc, conf, saved, warned, swallowed, untracked, result>>
    BY <1>25 DEF DoDeployControlHost
  <2>2. /\ \A g \in Hosts : g # h => ctr'[g] = ctr[g]
        /\ ctr'[h] \subseteq ctr[h] \cup {"sidekick"} \cup MasterServices
    BY <1>25, DoDeployControlHostFacts DEF OnlyAt
  <2>3. conf[h] # {} /\ "etcd" \notin {"sidekick"} \cup MasterServices
        /\ "nginx" \notin {"sidekick"} \cup MasterServices
    BY <2>1 DEF MasterServices
  <2> QED BY <2>1, <2>2, <2>3
<1>26. ASSUME NEW h \in Hosts, DoDeployWorkerPlane(h) PROVE BoundInv'
  <2>1. /\ pc \in DOMAIN WorkerStages /\ WorkerStages[pc] \in conf[h]
        /\ UNCHANGED <<pc, conf, saved, warned, swallowed, untracked, result>>
    BY <1>26 DEF DoDeployWorkerPlane
  <2>2. pc \in AfterSave /\ saved = conf
    BY <2>1 DEF WorkerStages
  <2>3. /\ \A g \in Hosts : g # h => ctr'[g] = ctr[g]
        /\ ctr'[h] \subseteq ctr[h] \cup WorkerSet
        /\ "controlplane" \in conf[h] =>
              ctr'[h] \subseteq ctr[h] \cup NodeServices
    BY <1>26, DoDeployWorkerPlaneFacts DEF OnlyAt
  <2>4. /\ conf[h] # {}
        /\ "etcd" \notin WorkerSet /\ WorkerSet \cap MasterServices = {}
        /\ "nginx" \notin NodeServices
    BY <2>1 DEF MasterServices, NodeServices, WorkerSet
  <2>5. ASSUME NEW g \in Hosts \ Excused PROVE Fits(g, saved[g])'
    <3>1. CASE g # h
      BY <2>1, <2>2, <2>3, <3>1
    <3>2. CASE g = h
      BY <2>1, <2>2, <2>3, <2>4, <3>2
    <3> QED BY <3>1, <3>2
  <2> QED BY <2>1, <2>2, <2>5
<1>27. CASE WorkerStageDone("worker_etcd", "worker_control")
  BY <1>27 DEF WorkerStageDone, WorkerStages, Wait, FailIf, Fail, Goto
<1>28. CASE WorkerStageDone("worker_control", "worker_worker")
  BY <1>28 DEF WorkerStageDone, WorkerStages, Wait, FailIf, Fail, Goto
<1>29. CASE WorkerStageDone("worker_worker", "sync")
  BY <1>29 DEF WorkerStageDone, Wait, FailIf, Fail, Goto
<1>30. CASE FinishUp
  BY <1>30 DEF FinishUp, FailIf, Fail
<1>31. CASE RemovePlaneHost("rm_worker", "worker",
                            RemoveWorkerPlane(conf[Current], TRUE))
  <2> DEFINE h == Current
             list == RemoveWorkerPlane(conf[Current], TRUE)
  <2>1. /\ Len(list) \in Nat
        /\ Take(list, Len(list)) = WorkerSet
    BY RemoveWorkerPlaneTaken
  <2>2. RemovePlaneHost("rm_worker", "worker", list)
    BY <1>31
  <2> HIDE DEF h, list
  <2>3. /\ pc = "rm_worker" /\ h \in todo /\ h \in Hosts
        /\ OnlyAt(h)
        /\ ctr'[h] \subseteq ctr[h]
        /\ \/ /\ ctr'[h] = ctr[h] \ Take(list, Len(list))
              /\ todo' = todo \ {h}
              /\ UNCHANGED <<pc, result, swallowed, conf, warned, untracked>>
           \/ /\ swallowed' = swallowed \cup todo
              /\ todo' = {}
              /\ UNCHANGED <<pc, result, conf, warned, untracked>>
           \/ Fail
    BY <2>1, <2>2, RemovePlaneHostFacts DEF h
  <2>4. saved' = saved
    BY <1>31 DEF RemovePlaneHost
  <2>5. CASE Fail
    <3>1. /\ pc' = "idle" /\ result' = "err"
          /\ Hosts \ Excused' \subseteq {g \in Hosts \ Excused : conf[g] = {}}
      BY <2>3, <2>5 DEF Fail
    <3>2. ASSUME NEW g \in Hosts \ Excused' PROVE ctr'[g] = {}
      <4>1. RemoveFits(g) /\ conf[g] = {} /\ ctr[g] \subseteq Services
        BY <3>1, <2>3
      <4>2. ctr[g] = {}
        BY <4>1 DEF Services, MasterServices, NodeServices
      <4> QED BY <4>2, <2>3 DEF OnlyAt
    <3> QED BY <3>1, <3>2
  <2>6. ASSUME NEW g \in Hosts \ Excused', ~Fail PROVE RemoveFits(g)'
    <3>1. RemoveFits(g) /\ pc' = pc /\ conf' = conf
      BY <2>3, <2>6
    <3>2. CASE g # h
      <4>1. ctr'[g] = ctr[g] /\ (g \in todo <=> g \in todo')
        BY <2>3, <2>6, <3>2 DEF OnlyAt
      <4> QED BY <3>1, <4>1
    <3>3. CASE g = h
      <4>1. ctr'[h] = ctr[h] \ WorkerSet
        BY <2>1, <2>3, <2>6, <3>3
      <4> QED BY <3>1, <3>3, <4>1, <2>3
             DEF WorkerSet, NodeServices, MasterServices
    <3> QED BY <3>2, <3>3
  <2> QED BY <2>3, <2>5, <2>6
<1>32. CASE RemovePlaneHost("rm_control", "controlplane",
                            RemoveControlPlane(conf[Current]))
  <2> DEFINE h == Current
             list == RemoveControlPlane(conf[Current])
  <2>1. /\ Len(list) \in Nat
        /\ Take(list, Len(list)) =
              MasterServices \cup
              IF "worker" \in conf[h] THEN {} ELSE NodeServices
    BY RemoveControlPlaneTaken
  <2>2. RemovePlaneHost("rm_control", "controlplane", list)
    BY <1>32
  <2> HIDE DEF h, list
  <2>3. /\ pc = "rm_control" /\ h \in todo /\ h \in Hosts
        /\ OnlyAt(h)
        /\ ctr'[h] \subseteq ctr[h]
        /\ \/ /\ ctr'[h] = ctr[h] \ Take(list, Len(list))
              /\ todo' = todo \ {h}
              /\ UNCHANGED <<pc, result, swallowed, conf, warned, untracked>>
           \/ /\ swallowed' = swallowed \cup todo
              /\ todo' = {}
              /\ UNCHANGED <<pc, result, conf, warned, untracked>>
           \/ Fail
    BY <2>1, <2>2, RemovePlaneHostFacts DEF h
  <2>4. saved' = saved
    BY <1>32 DEF RemovePlaneHost
  <2>5. CASE Fail
    <3>1. /\ pc' = "idle" /\ result' = "err"
          /\ Hosts \ Excused' \subseteq {g \in Hosts \ Excused : conf[g] = {}}
      BY <2>3, <2>5 DEF Fail
    <3>2. ASSUME NEW g \in Hosts \ Excused' PROVE ctr'[g] = {}
      <4>1. RemoveFits(g) /\ conf[g] = {} /\ ctr[g] \subseteq Services
        BY <3>1, <2>3
      <4>2. ctr[g] = {}
        BY <4>1 DEF Services, MasterServices, NodeServices
      <4> QED BY <4>2, <2>3 DEF OnlyAt
    <3> QED BY <3>1, <3>2
  <2>6. ASSUME NEW g \in Hosts \ Excused', ~Fail PROVE RemoveFits(g)'
    <3>1. RemoveFits(g) /\ pc' = pc /\ conf' = conf
      BY <2>3, <2>6
    <3>2. CASE g # h
      <4>1. ctr'[g] = ctr[g] /\ (g \in todo <=> g \in todo')
        BY <2>3, <2>6, <3>2 DEF OnlyAt
      <4> QED BY <3>1, <4>1
    <3>3. CASE g = h
      <4>1. ctr'[h] = ctr[h] \
              (MasterServices \cup
               IF "worker" \in conf[h] THEN {} ELSE NodeServices)
        BY <2>1, <2>3, <2>6, <3>3
      <4> QED BY <3>1, <3>3, <4>1, <2>3
             DEF WorkerSet, NodeServices, MasterServices
    <3> QED BY <3>2, <3>3
  <2> QED BY <2>3, <2>5, <2>6
<1>33. CASE RemovePlaneHost("rm_etcd", "etcd",
                            RemoveEtcdPlane(conf[Current], TRUE))
  <2> DEFINE h == Current
             list == RemoveEtcdPlane(conf[Current], TRUE)
  <2>1. /\ Len(list) \in Nat
        /\ Take(list, Len(list)) =
              {"etcd"} \cup WorkerSet
    BY RemoveEtcdPlaneTaken
  <2>2. RemovePlaneHost("rm_etcd", "etcd", list)
    BY <1>33
  <2> HIDE DEF h, list
  <2>3. /\ pc = "rm_etcd" /\ h \in todo /\ h \in Hosts
        /\ OnlyAt(h)
        /\ ctr'[h] \subseteq ctr[h]
        /\ \/ /\ ctr'[h] = ctr[h] \ Take(list, Len(list))
              /\ todo' = todo \ {h}
              /\ UNCHANGED <<pc, result, swallowed, conf, warned, untracked>>
           \/ /\ swallowed' = swallowed \cup todo
              /\ todo' = {}
              /\ UNCHANGED <<pc, result, conf, warned, untracked>>
           \/ Fail
    BY <2>1, <2>2, RemovePlaneHostFacts DEF h
  <2>4. saved' = saved
    BY <1>33 DEF RemovePlaneHost
  <2>5. CASE Fail
    <3>1. /\ pc' = "idle" /\ result' = "err"
          /\ Hosts \ Excused' \subseteq {g \in Hosts \ Excused : conf[g] = {}}
      BY <2>3, <2>5 DEF Fail
    <3>2. ASSUME NEW g \in Hosts \ Excused' PROVE ctr'[g] = {}
      <4>1. RemoveFits(g) /\ conf[g] = {} /\ ctr[g] \subseteq Services
        BY <3>1, <2>3
      <4>2. ctr[g] = {}
        BY <4>1 DEF Services, MasterServices, NodeServices
      <4> QED BY <4>2, <2>3 DEF OnlyAt
    <3> QED BY <3>1, <3>2
  <2>6. ASSUME NEW g \in Hosts \ Excused', ~Fail PROVE RemoveFits(g)'
    <3>1. RemoveFits(g) /\ pc' = pc /\ conf' = conf
      BY <2>3, <2>6
    <3>2. CASE g # h
      <4>1. ctr'[g] = ctr[g] /\ (g \in todo <=> g \in todo')
        BY <2>3, <2>6, <3>2 DEF OnlyAt
      <4> QED BY <3>1, <4>1
    <3>3. CASE g = h
      <4>1. ctr'[h] = ctr[h] \
              ({"etcd"} \cup WorkerSet)
        BY <2>1, <2>3, <2>6, <3>3
      <4> QED BY <3>1, <3>3, <4>1, <2>3
             DEF WorkerSet, NodeServices, MasterServices
    <3> QED BY <3>2, <3>3
  <2> QED BY <2>3, <2>5, <2>6
<1>34. CASE RemoveStageDone("rm_worker", "rm_control", ControlHosts(conf))
  BY <1>34 DEF RemoveStageDone, Goto
<1>35. CASE RemoveStageDone("rm_control", "rm_etcd", EtcdHosts(conf))
  BY <1>35 DEF RemoveStageDone, Goto
<1>36. CASE RemoveStageDone("rm_etcd", "rm_clean", HostsOf(conf))
  BY <1>36 DEF RemoveStageDone, Goto
<1>37. CASE CleanUpHost
  BY <1>37, <1>a, <1>b, <1>c DEF CleanUpHost
<1>38. CASE FinishRemove
  <2>1. /\ pc = "rm_clean" /\ todo = {} /\ pc' = "idle"
        /\ UNCHANGED <<ctr, conf, saved, warned, swallowed, untracked>>
    BY <1>38 DEF FinishRemove
  <2>2. ASSUME NEW g \in Hosts \ Excused PROVE ctr[g] = {}
    <3>1. RemoveFits(g) /\ conf[g] \subseteq Roles /\ ctr[g] \subseteq Services
      BY <2>1
    <3>2. \A s \in Services : s \notin ctr[g]
      BY <2>1, <3>1 DEF Services, MasterServices, NodeServices, Roles
    <3> QED BY <3>1, <3>2
  <2> QED BY <2>1, <2>2
<1>39. CASE Abort
  BY <1>39 DEF Abort, FailIf, Fail
<1>40. ASSUME NEW h \in Hosts, KubeletRegisters(h) PROVE BoundInv'
  BY <1>40 DEF KubeletRegisters
<1>41. CASE UNCHANGED vars
  BY <1>41 DEF vars
<1> QED
  BY <1>1, <1>2, <1>3, <1>4, <1>5, <1>6, <1>7, <1>8, <1>9, <1>10, <1>11, <1>12,
     <1>13, <1>14, <1>15, <1>16, <1>17, <1>18, <1>19, <1>20, <1>21, <1>22,
     <1>23, <1>24, <1>25, <1>26, <1>27, <1>28, <1>29, <1>30, <1>31, <1>32,
     <1>33, <1>34, <1>35, <1>36, <1>37, <1>38, <1>39, <1>40, <1>41
     DEF Next, RkeStep, Reconcile, DeployPlanes, ClusterRemove, RemovePlanes

\* Only a host that runs nginx-proxy has its port, and none that is both
\* control host and worker runs it once the deployment of the control plane is
\* through.
LEMMA ProxyStep == UpInv /\ [Next]_vars => ProxyInv'
<1> SUFFICES ASSUME UpInv, [Next]_vars PROVE ProxyInv'
  OBVIOUS
<1> USE DEF LoseTrack,
            UpInv, TypeInv, LoopInv, ProxyInv, Stages, ReconcileStages,
            EtcdLoop, AddLoop, WorkerLoop, ControlLoop, DeployStages,
            AfterSave, RemoveStages, hostVars, clusterVars, procVars, history,
            HostsOf, ControlHosts, EtcdHosts, Plane, GetToDeleteHosts,
            GetToAddHosts, NoConfig
<1>a. TypeInv'
  BY TypeStep
<1>b. todo # {} => Current \in todo /\ FirstHost(todo) \in todo
  BY CurrentIn DEF UpInv, TypeInv
<1>c. pc \notin {"control_node", "control_host", "rm_clean"} =>
        Current = FirstHost(todo)
  BY DEF Current
<1>1. ASSUME NEW c \in Configs, StartUp(c) PROVE ProxyInv'
  BY <1>1 DEF StartUp
<1>2. CASE StartRemove
  BY <1>2 DEF StartRemove
<1>3. CASE GetClusterState
  BY <1>3 DEF GetClusterState
<1>4. CASE UseFetchedCertificates
  BY <1>4 DEF UseFetchedCertificates, Goto
<1>5. CASE RecoverOrGenerate
  BY <1>5 DEF RecoverOrGenerate, Goto
<1>6. CASE ReconcileEtcdMember
  BY <1>6, <1>a, <1>b, <1>c DEF ReconcileEtcdMember, Goto
<1>7. CASE ReconcileEtcdNode
  BY <1>7, <1>a, <1>b, <1>c DEF ReconcileEtcdNode, Goto, NodesAfterDelete,
     DeleteNodeWorks
<1>8. CASE ReconcileEtcdHost
  <2> DEFINE list == RemoveEtcdPlane(cur[Current], FALSE)
  <2>1. Len(list) \in Nat
    BY RemoveEtcdPlaneTaken
  <2>2. ReconcileHost(Current, "etcd", list, "etcd_member")
    BY <1>8 DEF ReconcileEtcdHost
  <2> HIDE DEF list
  <2>3. Current \in todo /\ Current \in Hosts
    BY <1>8, <1>b DEF ReconcileEtcdHost
  <2>4. /\ \A g \in Hosts : ctr'[g] \subseteq ctr[g]
        /\ \A g \in proxied' : g \in Hosts /\ "nginx" \in ctr'[g]
    BY <2>1, <2>2, <2>3, ReconcileHostFacts DEF OnlyAt
  <2>5. saved' = saved /\ (~Fail => pc' = "etcd_member")
    BY <2>1, <2>2, <2>3, ReconcileHostFacts
  <2>6. pc' \in {"etcd_member", "idle"}
    BY <2>5 DEF Fail
  <2> QED BY <2>4, <2>5, <2>6
<1>9. CASE EtcdDeleted
  BY <1>9 DEF EtcdDeleted, Goto
<1>10. CASE AddEtcdMember
  BY <1>10, <1>a, <1>b, <1>c DEF AddEtcdMember, Goto, FailIf, Fail
<1>11. CASE ReloadEtcdCluster
  BY <1>11, <1>a, <1>b, <1>c DEF ReloadEtcdCluster, Goto, FailIf, Fail,
     LoopPrefixes, ReadyHosts
<1>12. CASE EtcdAdded
  BY <1>12 DEF EtcdAdded, Goto
<1>13. CASE ReconcileWorkerNode
  BY <1>13, <1>a, <1>b, <1>c DEF ReconcileWorkerNode, Goto, FailIf, Fail,
     NodesAfterDelete
<1>14. CASE ReconcileWorkerHost
  <2> DEFINE list == RemoveWorkerPlane(cur[Current], FALSE)
  <2>1. Len(list) \in Nat
    BY RemoveWorkerPlaneTaken
  <2>2. ReconcileHost(Current, "worker", list, "worker_node")
    BY <1>14 DEF ReconcileWorkerHost
  <2> HIDE DEF list
  <2>3. Current \in todo /\ Current \in Hosts
    BY <1>14, <1>b DEF ReconcileWorkerHost
  <2>4. /\ \A g \in Hosts : ctr'[g] \subseteq ctr[g]
        /\ \A g \in proxied' : g \in Hosts /\ "nginx" \in ctr'[g]
    BY <2>1, <2>2, <2>3, ReconcileHostFacts DEF OnlyAt
  <2>5. saved' = saved /\ (~Fail => pc' = "worker_node")
    BY <2>1, <2>2, <2>3, ReconcileHostFacts
  <2>6. pc' \in {"worker_node", "idle"}
    BY <2>5 DEF Fail
  <2> QED BY <2>4, <2>5, <2>6
<1>15. CASE WorkersDeleted
  BY <1>15 DEF WorkersDeleted, Goto
<1>16. CASE ReconcileControlNode
  BY <1>16, <1>a, <1>b, <1>c DEF ReconcileControlNode, Goto, FailIf, Fail,
     NodesAfterDelete
<1>17. CASE ReconcileControlHost
  <2>1. Len(RemoveControlPlane(cur[Current])) \in Nat
    BY RemoveControlPlaneTaken
  <2>2. ReconcileHost(Current, "controlplane",
                      RemoveControlPlane(cur[Current]),
                      "control_node")
    BY <1>17 DEF ReconcileControlHost
  <2>3. Current \in todo /\ Current \in Hosts
    BY <1>17, <1>b DEF ReconcileControlHost
  <2>4. /\ \A g \in Hosts : ctr'[g] \subseteq ctr[g]
        /\ \A g \in proxied' : g \in Hosts /\ "nginx" \in ctr'[g]
    BY <2>1, <2>2, <2>3, ReconcileHostFacts DEF OnlyAt
  <2>5. saved' = saved /\ (~Fail => pc' = "control_node")
    BY <2>1, <2>2, <2>3, ReconcileHostFacts
  <2>6. pc' \in {"control_node", "idle"}
    BY <2>5 DEF Fail
  <2> QED BY <2>4, <2>5, <2>6
<1>18. CASE ControlDeleted
  BY <1>18 DEF ControlDeleted, Goto
<1>19. CASE CertificatesDeployed
  BY <1>19 DEF CertificatesDeployed, Wait, FailIf, Fail, Goto
<1>20. CASE RunEtcd
  BY <1>20, <1>a, <1>b, <1>c DEF RunEtcd
<1>21. CASE EtcdRunning
  BY <1>21 DEF EtcdRunning, Goto
<1>22. CASE ControlRunning
  BY <1>22 DEF ControlRunning, Wait, FailIf, Fail, Goto
<1>23. CASE SaveClusterState
  BY <1>23 DEF SaveClusterState, Goto, FailIf, Fail
<1>24. ASSUME NEW h \in Hosts, DeployCertificates(h) PROVE ProxyInv'
  BY <1>24 DEF DeployCertificates
<1>25. ASSUME NEW h \in Hosts, DoDeployControlHost(h) PROVE ProxyInv'
  <2>1. /\ \A g \in Hosts : g # h => ctr'[g] = ctr[g]
        /\ \A g \in proxied' : g \in Hosts /\ "nginx" \in ctr'[g]
        /\ "nginx" \in ctr'[h] => "nginx" \in ctr[h]
        /\ "worker" \in conf[h] => "nginx" \notin ctr'[h]
        /\ group' = group \ {h}
        /\ failed => failed'
    BY <1>25, DoDeployControlHostFacts DEF OnlyAt, MasterServices
  <2> QED BY <1>25, <2>1 DEF DoDeployControlHost
<1>26. ASSUME NEW h \in Hosts, DoDeployWorkerPlane(h) PROVE ProxyInv'
  <2>1. /\ \A g \in Hosts : g # h => ctr'[g] = ctr[g]
        /\ \A g \in proxied' : g \in Hosts /\ "nginx" \in ctr'[g]
        /\ "controlplane" \in conf[h] /\ "nginx" \in ctr'[h]
              => "nginx" \in ctr[h]
    BY <1>26, DoDeployWorkerPlaneFacts DEF OnlyAt, NodeServices
  <2>2. pc \in AfterSave /\ saved = conf
    BY <1>26 DEF DoDeployWorkerPlane, WorkerStages
  <2> QED BY <1>26, <2>1, <2>2 DEF DoDeployWorkerPlane
<1>27. CASE WorkerStageDone("worker_etcd", "worker_control")
  BY <1>27 DEF WorkerStageDone, WorkerStages, Wait, FailIf, Fail, Goto
<1>28. CASE WorkerStageDone("worker_control", "worker_worker")
  BY <1>28 DEF WorkerStageDone, WorkerStages, Wait, FailIf, Fail, Goto
<1>29. CASE WorkerStageDone("worker_worker", "sync")
  BY <1>29 DEF WorkerStageDone, Wait, FailIf, Fail, Goto
<1>30. CASE FinishUp
  BY <1>30 DEF FinishUp, FailIf, Fail
<1>31. CASE RemovePlaneHost("rm_worker", "worker",
                            RemoveWorkerPlane(conf[Current], TRUE))
  <2>1. Len(RemoveWorkerPlane(conf[Current], TRUE)) \in Nat
    BY RemoveWorkerPlaneTaken
  <2>2. /\ \A g \in Hosts : ctr'[g] \subseteq ctr[g]
        /\ \A g \in proxied' : g \in Hosts /\ "nginx" \in ctr'[g]
    BY <1>31, <2>1, RemovePlaneHostFacts DEF OnlyAt
  <2> QED BY <1>31, <2>2 DEF RemovePlaneHost, FailIf, Fail
<1>32. CASE RemovePlaneHost("rm_control", "controlplane",
                            RemoveControlPlane(conf[Current]))
  <2>1. Len(RemoveControlPlane(conf[Current])) \in Nat
    BY RemoveControlPlaneTaken
  <2>2. /\ \A g \in Hosts : ctr'[g] \subseteq ctr[g]
        /\ \A g \in proxied' : g \in Hosts /\ "nginx" \in ctr'[g]
    BY <1>32, <2>1, RemovePlaneHostFacts DEF OnlyAt
  <2> QED BY <1>32, <2>2 DEF RemovePlaneHost, FailIf, Fail
<1>33. CASE RemovePlaneHost("rm_etcd", "etcd",
                            RemoveEtcdPlane(conf[Current], TRUE))
  <2>1. Len(RemoveEtcdPlane(conf[Current], TRUE)) \in Nat
    BY RemoveEtcdPlaneTaken
  <2>2. /\ \A g \in Hosts : ctr'[g] \subseteq ctr[g]
        /\ \A g \in proxied' : g \in Hosts /\ "nginx" \in ctr'[g]
    BY <1>33, <2>1, RemovePlaneHostFacts DEF OnlyAt
  <2> QED BY <1>33, <2>2 DEF RemovePlaneHost, FailIf, Fail
<1>34. CASE RemoveStageDone("rm_worker", "rm_control", ControlHosts(conf))
  BY <1>34 DEF RemoveStageDone, Goto
<1>35. CASE RemoveStageDone("rm_control", "rm_etcd", EtcdHosts(conf))
  BY <1>35 DEF RemoveStageDone, Goto
<1>36. CASE RemoveStageDone("rm_etcd", "rm_clean", HostsOf(conf))
  BY <1>36 DEF RemoveStageDone, Goto
<1>37. CASE CleanUpHost
  BY <1>37, <1>a, <1>b, <1>c DEF CleanUpHost
<1>38. CASE FinishRemove
  BY <1>38 DEF FinishRemove
<1>39. CASE Abort
  BY <1>39 DEF Abort, FailIf, Fail
<1>40. ASSUME NEW h \in Hosts, KubeletRegisters(h) PROVE ProxyInv'
  BY <1>40 DEF KubeletRegisters
<1>41. CASE UNCHANGED vars
  BY <1>41 DEF vars
<1> QED
  BY <1>1, <1>2, <1>3, <1>4, <1>5, <1>6, <1>7, <1>8, <1>9, <1>10, <1>11, <1>12,
     <1>13, <1>14, <1>15, <1>16, <1>17, <1>18, <1>19, <1>20, <1>21, <1>22,
     <1>23, <1>24, <1>25, <1>26, <1>27, <1>28, <1>29, <1>30, <1>31, <1>32,
     <1>33, <1>34, <1>35, <1>36, <1>37, <1>38, <1>39, <1>40, <1>41
     DEF Next, RkeStep, Reconcile, DeployPlanes, ClusterRemove, RemovePlanes

\* What the deployment has brought up stays up until the run ends.
LEMMA CompleteStep == UpInv /\ [Next]_vars => CompleteInv'
<1> SUFFICES ASSUME UpInv, [Next]_vars PROVE CompleteInv'
  OBVIOUS
<1> USE DEF LoseTrack,
            UpInv, TypeInv, LoopInv, CompleteInv, Deployed, HasMaster, HasNode,
            Stages, ReconcileStages, EtcdLoop, AddLoop, WorkerLoop,
            ControlLoop, DeployStages, AfterSave, RemoveStages, hostVars,
            clusterVars, procVars, history, HostsOf, ControlHosts, EtcdHosts,
            Plane, GetToDeleteHosts, GetToAddHosts, NoConfig
<1>a. TypeInv'
  BY TypeStep
<1>b. todo # {} => Current \in todo /\ FirstHost(todo) \in todo
  BY CurrentIn DEF UpInv, TypeInv
<1>c. pc \notin {"control_node", "control_host", "rm_clean"} =>
        Current = FirstHost(todo)
  BY DEF Current
<1>1. ASSUME NEW c \in Configs, StartUp(c) PROVE CompleteInv'
  BY <1>1 DEF StartUp
<1>2. CASE StartRemove
  BY <1>2 DEF StartRemove
<1>3. CASE GetClusterState
  BY <1>3 DEF GetClusterState
<1>4. CASE UseFetchedCertificates
  BY <1>4 DEF UseFetchedCertificates, Goto
<1>5. CASE RecoverOrGenerate
  BY <1>5 DEF RecoverOrGenerate, Goto
<1>6. CASE ReconcileEtcdMember
  BY <1>6, <1>a, <1>b, <1>c DEF ReconcileEtcdMember, Goto
<1>7. CASE ReconcileEtcdNode
  BY <1>7, <1>a, <1>b, <1>c DEF ReconcileEtcdNode, Goto, NodesAfterDelete,
     DeleteNodeWorks
<1>8. CASE ReconcileEtcdHost
  BY <1>8, <1>a, <1>b, <1>c DEF ReconcileEtcdHost, ReconcileHost, TakeDown,
     FailIf, Fail
<1>9. CASE EtcdDeleted
  BY <1>9 DEF EtcdDeleted, Goto
<1>10. CASE AddEtcdMember
  BY <1>10, <1>a, <1>b, <1>c DEF AddEtcdMember, Goto, FailIf, Fail
<1>11. CASE ReloadEtcdCluster
  BY <1>11, <1>a, <1>b, <1>c DEF ReloadEtcdCluster, Goto, FailIf, Fail,
     LoopPrefixes, ReadyHosts
<1>12. CASE EtcdAdded
  BY <1>12 DEF EtcdAdded, Goto
<1>13. CASE ReconcileWorkerNode
  BY <1>13, <1>a, <1>b, <1>c DEF ReconcileWorkerNode, Goto, FailIf, Fail,
     NodesAfterDelete
<1>14. CASE ReconcileWorkerHost
  BY <1>14, <1>a, <1>b, <1>c DEF ReconcileWorkerHost, ReconcileHost, TakeDown,
     FailIf, Fail
<1>15. CASE WorkersDeleted
  BY <1>15 DEF WorkersDeleted, Goto
<1>16. CASE ReconcileControlNode
  BY <1>16, <1>a, <1>b, <1>c DEF ReconcileControlNode, Goto, FailIf, Fail,
     NodesAfterDelete
<1>17. CASE ReconcileControlHost
  BY <1>17, <1>a, <1>b, <1>c DEF ReconcileControlHost, ReconcileHost, TakeDown,
     FailIf, Fail
<1>18. CASE ControlDeleted
  BY <1>18 DEF ControlDeleted, Goto
<1>19. CASE CertificatesDeployed
  BY <1>19 DEF CertificatesDeployed, Wait, FailIf, Fail, Goto
<1>20. CASE RunEtcd
  BY <1>20, <1>a, <1>b, <1>c DEF RunEtcd
<1>21. CASE EtcdRunning
  BY <1>21 DEF EtcdRunning, Goto
<1>22. CASE ControlRunning
  BY <1>22 DEF ControlRunning, Wait, FailIf, Fail, Goto
<1>23. CASE SaveClusterState
  BY <1>23 DEF SaveClusterState, Goto, FailIf, Fail
<1>24. ASSUME NEW h \in Hosts, DeployCertificates(h) PROVE CompleteInv'
  BY <1>24 DEF DeployCertificates
<1>25. ASSUME NEW h \in Hosts, DoDeployControlHost(h) PROVE CompleteInv'
  <2>1. /\ \A g \in Hosts : g # h => ctr'[g] = ctr[g]
        /\ ctr[h] \ {"nginx"} \subseteq ctr'[h]
        /\ group' = group \ {h}
        /\ failed => failed'
        /\ ~failed' => {"sidekick"} \cup MasterServices \subseteq ctr'[h]
    BY <1>25, DoDeployControlHostFacts DEF OnlyAt
  <2>2. /\ pc = "control_run" /\ UNCHANGED <<pc, todo, files, conf, result>>
    BY <1>25 DEF DoDeployControlHost
  <2> QED BY <2>1, <2>2
<1>26. ASSUME NEW h \in Hosts, DoDeployWorkerPlane(h) PROVE CompleteInv'
  <2>1. /\ \A g \in Hosts : ctr[g] \subseteq ctr'[g]
        /\ group' = group \ {h}
        /\ failed => failed'
        /\ ~failed' => /\ NodeServices \subseteq ctr'[h]
                       /\ "controlplane" \notin conf[h] => "nginx" \in ctr'[h]
    BY <1>26, DoDeployWorkerPlaneFacts DEF OnlyAt
  <2>2. /\ pc \in {"worker_etcd", "worker_control", "worker_worker"}
        /\ UNCHANGED <<pc, todo, conf, result>>
        /\ \A g \in Hosts : files[g] \subseteq files'[g]
    BY <1>26 DEF DoDeployWorkerPlane, WorkerStages
  <2> QED BY <2>1, <2>2
<1>27. CASE WorkerStageDone("worker_etcd", "worker_control")
  BY <1>27 DEF WorkerStageDone, WorkerStages, Wait, FailIf, Fail, Goto
<1>28. CASE WorkerStageDone("worker_control", "worker_worker")
  BY <1>28 DEF WorkerStageDone, WorkerStages, Wait, FailIf, Fail, Goto
<1>29. CASE WorkerStageDone("worker_worker", "sync")
  BY <1>29 DEF WorkerStageDone, Wait, FailIf, Fail, Goto
<1>30. CASE FinishUp
  <2>1. \A h \in Hosts : conf[h] # {} =>
           \/ "etcd" \in conf[h] \/ "controlplane" \in conf[h]
           \/ "worker" \in conf[h]
    BY DEF Roles
  <2> QED BY <1>30, <2>1 DEF FinishUp, FailIf, Fail
<1>31. CASE RemovePlaneHost("rm_worker", "worker",
                            RemoveWorkerPlane(conf[Current], TRUE))
  BY <1>31 DEF RemovePlaneHost, TakeDown, FailIf, Fail
<1>32. CASE RemovePlaneHost("rm_control", "controlplane",
                            RemoveControlPlane(conf[Current]))
  BY <1>32 DEF RemovePlaneHost, TakeDown, FailIf, Fail
<1>33. CASE RemovePlaneHost("rm_etcd", "etcd",
                            RemoveEtcdPlane(conf[Current], TRUE))
  BY <1>33 DEF RemovePlaneHost, TakeDown, FailIf, Fail
<1>34. CASE RemoveStageDone("rm_worker", "rm_control", ControlHosts(conf))
  BY <1>34 DEF RemoveStageDone, Goto
<1>35. CASE RemoveStageDone("rm_control", "rm_etcd", EtcdHosts(conf))
  BY <1>35 DEF RemoveStageDone, Goto
<1>36. CASE RemoveStageDone("rm_etcd", "rm_clean", HostsOf(conf))
  BY <1>36 DEF RemoveStageDone, Goto
<1>37. CASE CleanUpHost
  BY <1>37, <1>a, <1>b, <1>c DEF CleanUpHost
<1>38. CASE FinishRemove
  BY <1>38 DEF FinishRemove
<1>39. CASE Abort
  BY <1>39 DEF Abort, FailIf, Fail
<1>40. ASSUME NEW h \in Hosts, KubeletRegisters(h) PROVE CompleteInv'
  BY <1>40 DEF KubeletRegisters
<1>41. CASE UNCHANGED vars
  BY <1>41 DEF vars
<1> QED
  BY <1>1, <1>2, <1>3, <1>4, <1>5, <1>6, <1>7, <1>8, <1>9, <1>10, <1>11, <1>12,
     <1>13, <1>14, <1>15, <1>16, <1>17, <1>18, <1>19, <1>20, <1>21, <1>22,
     <1>23, <1>24, <1>25, <1>26, <1>27, <1>28, <1>29, <1>30, <1>31, <1>32,
     <1>33, <1>34, <1>35, <1>36, <1>37, <1>38, <1>39, <1>40, <1>41
     DEF Next, RkeStep, Reconcile, DeployPlanes, ClusterRemove, RemovePlanes

\* A run that is killed while it reconciles excuses every host that has joined.
LEMMA KilledNodes ==
  ASSUME UpInv, pc \in ReconcileStages, Fail, joined' \subseteq joined
  PROVE  \A g \in joined' : g \in Excused' \cup interrupted'
<1>1. pc \notin AfterSave
  BY DEF ReconcileStages, EtcdLoop, AddLoop, WorkerLoop, ControlLoop, AfterSave
<1>2. Excused \subseteq Excused' /\ HostsOf(saved) \subseteq interrupted'
  BY <1>1 DEF Fail, LoseTrack, Excused
<1>3. ASSUME NEW g \in joined, g \notin Excused PROVE g \in HostsOf(saved)
  <2>1. g \in Hosts /\ "kubelet" \in ctr[g] /\ LoopFits(g)
    BY <1>3 DEF UpInv, NodeInv, BoundInv
  <2>2. NodeServices \cap ctr[g] # {}
    BY <2>1 DEF NodeServices
  <2> QED BY <2>1, <2>2 DEF LoopFits, HostsOf
<1> QED BY <1>2, <1>3

\* A Node is deleted only of a kubelet that is taken down next.
LEMMA NodeStep == UpInv /\ [Next]_vars => NodeInv'
<1> SUFFICES ASSUME UpInv, [Next]_vars PROVE NodeInv'
  OBVIOUS
<1> USE DEF LoseTrack, UpInv, TypeInv, LoopInv, NodeInv, Excused, Stages,
            ReconcileStages,
            EtcdLoop, AddLoop, WorkerLoop, ControlLoop, DeployStages,
            AfterSave, RemoveStages, hostVars, clusterVars, procVars, history,
            HostsOf, ControlHosts, EtcdHosts, Plane, GetToDeleteHosts,
            GetToAddHosts, NoConfig
<1>a. TypeInv'
  BY TypeStep
<1>b. todo # {} => Current \in todo /\ FirstHost(todo) \in todo
  BY CurrentIn DEF UpInv, TypeInv
<1>c. pc \notin {"control_node", "control_host", "rm_clean"} =>
        Current = FirstHost(todo)
  BY DEF Current
<1>1. ASSUME NEW c \in Configs, StartUp(c) PROVE NodeInv'
  BY <1>1 DEF StartUp
<1>2. CASE StartRemove
  BY <1>2 DEF StartRemove
<1>3. CASE GetClusterState
  BY <1>3 DEF GetClusterState
<1>4. CASE UseFetchedCertificates
  BY <1>4 DEF UseFetchedCertificates, Goto
<1>5. CASE RecoverOrGenerate
  BY <1>5 DEF RecoverOrGenerate, Goto
<1>6. CASE ReconcileEtcdMember
  BY <1>6, <1>a, <1>b, <1>c DEF ReconcileEtcdMember, Goto
<1>7. CASE ReconcileEtcdNode
  <2>1. /\ pc = "etcd_node" /\ Current \in todo /\ Current \in Hosts
        /\ Current = FirstHost(todo)
    BY <1>7, <1>b DEF ReconcileEtcdNode, Current
  <2> QED BY <1>7, <2>1 DEF ReconcileEtcdNode, Goto, FailIf, Fail,
             NodesAfterDelete
<1>8. CASE ReconcileEtcdHost
  <2> DEFINE h == Current
             list == RemoveEtcdPlane(cur[Current], FALSE)
  <2>1. /\ pc = "etcd_host" /\ h \in todo /\ h \in Hosts
        /\ nodes' = nodes /\ saved' = saved
        /\ h = FirstHost(todo)
    BY <1>8, <1>b DEF ReconcileEtcdHost, ReconcileHost, Current
  <2>2. /\ Len(list) \in Nat
        /\ "controlplane" \notin cur[h] => "kubelet" \in Take(list, Len(list))
    <3>1. "kubelet" \in NodeServices /\ "kubelet" \in WorkerSet
      BY DEF WorkerSet, NodeServices
    <3>2. /\ Len(list) \in Nat
          /\ Take(list, Len(list)) =
                {"etcd"} \cup
                IF {"worker", "controlplane"} \subseteq cur[h] THEN {}
                ELSE WorkerSet
      BY RemoveEtcdPlaneTaken
    <3> QED BY <3>1, <3>2
  <2>3. ReconcileHost(h, "etcd", list, "etcd_member")
    BY <1>8 DEF ReconcileEtcdHost
  <2> HIDE DEF h, list
  <2>4. /\ \A g \in Hosts : g # h => ctr'[g] = ctr[g]
        /\ joined' \subseteq joined
        /\ h \in joined' => ("kubelet" \in ctr[h] => "kubelet" \in ctr'[h])
        /\ warned \subseteq warned' /\ swallowed \subseteq swallowed'
        /\ ~Fail =>
              /\ UNCHANGED <<untracked, interrupted>>
              /\ h \notin warned' \cup swallowed' /\ h \in joined'
                    => "kubelet" \notin Take(list, Len(list))
    BY <2>1, <2>2, <2>3, ReconcileHostFacts DEF OnlyAt
  <2>5. \A g \in joined' : g \in Hosts /\ "kubelet" \in ctr'[g]
    BY <2>1, <2>4
  <2>6. ASSUME NEW g \in joined' \ (Excused \cup interrupted)', ~Fail
        PROVE  g \in nodes'
    <3>1. g \in joined \ (Excused \cup interrupted)
      BY <2>1, <2>4, <2>6
    <3> QED BY <2>1, <2>2, <2>4, <2>6, <3>1
  <2>7. CASE Fail
    <3>1. \A g \in joined' : g \in Excused' \cup interrupted'
      BY <2>1, <2>4, <2>7, KilledNodes
    <3> QED BY <2>5, <3>1
  <2> QED BY <2>5, <2>6, <2>7
<1>9. CASE EtcdDeleted
  BY <1>9 DEF EtcdDeleted, Goto
<1>10. CASE AddEtcdMember
  BY <1>10, <1>a, <1>b, <1>c DEF AddEtcdMember, Goto, FailIf, Fail
<1>11. CASE ReloadEtcdCluster
  BY <1>11, <1>a, <1>b, <1>c DEF ReloadEtcdCluster, Goto, FailIf, Fail,
     LoopPrefixes, ReadyHosts
<1>12. CASE EtcdAdded
  BY <1>12 DEF EtcdAdded, Goto
<1>13. CASE ReconcileWorkerNode
  <2>1. /\ pc = "worker_node" /\ Current \in todo /\ Current \in Hosts
        /\ Current = FirstHost(todo)
    BY <1>13, <1>b DEF ReconcileWorkerNode, Current
  <2> QED BY <1>13, <2>1 DEF ReconcileWorkerNode, Goto, FailIf, Fail,
             NodesAfterDelete
<1>14. CASE ReconcileWorkerHost
  <2> DEFINE h == Current
             list == RemoveWorkerPlane(cur[Current], FALSE)
  <2>1. /\ pc = "worker_host" /\ h \in todo /\ h \in Hosts
        /\ nodes' = nodes /\ saved' = saved
        /\ h = FirstHost(todo)
    BY <1>14, <1>b DEF ReconcileWorkerHost, ReconcileHost, Current
  <2>2. /\ Len(list) \in Nat
        /\ "controlplane" \notin cur[h] => "kubelet" \in Take(list, Len(list))
    <3>1. "kubelet" \in NodeServices /\ "kubelet" \in WorkerSet
      BY DEF WorkerSet, NodeServices
    <3> QED BY <3>1, RemoveWorkerPlaneTaken
  <2>3. ReconcileHost(h, "worker", list, "worker_node")
    BY <1>14 DEF ReconcileWorkerHost
  <2> HIDE DEF h, list
  <2>4. /\ \A g \in Hosts : g # h => ctr'[g] = ctr[g]
        /\ joined' \subseteq joined
        /\ h \in joined' => ("kubelet" \in ctr[h] => "kubelet" \in ctr'[h])
        /\ warned \subseteq warned' /\ swallowed \subseteq swallowed'
        /\ ~Fail =>
              /\ UNCHANGED <<untracked, interrupted>>
              /\ h \notin warned' \cup swallowed' /\ h \in joined'
                    => "kubelet" \notin Take(list, Len(list))
    BY <2>1, <2>2, <2>3, ReconcileHostFacts DEF OnlyAt
  <2>5. \A g \in joined' : g \in Hosts /\ "kubelet" \in ctr'[g]
    BY <2>1, <2>4
  <2>6. ASSUME NEW g \in joined' \ (Excused \cup interrupted)', ~Fail
        PROVE  g \in nodes'
    <3>1. g \in joined \ (Excused \cup interrupted)
      BY <2>1, <2>4, <2>6
    <3> QED BY <2>1, <2>2, <2>4, <2>6, <3>1
  <2>7. CASE Fail
    <3>1. \A g \in joined' : g \in Excused' \cup interrupted'
      BY <2>1, <2>4, <2>7, KilledNodes
    <3> QED BY <2>5, <3>1
  <2> QED BY <2>5, <2>6, <2>7
<1>15. CASE WorkersDeleted
  BY <1>15 DEF WorkersDeleted, Goto
<1>16. CASE ReconcileControlNode
  <2>1. /\ pc = "control_node" /\ Current \in todo /\ Current \in Hosts
        /\ Current = SelfLast(todo, kubeconf)
    BY <1>16, <1>b DEF ReconcileControlNode, Current
  <2> QED BY <1>16, <2>1 DEF ReconcileControlNode, Goto, FailIf, Fail,
             NodesAfterDelete
<1>17. CASE ReconcileControlHost
  <2> DEFINE h == Current
             list == RemoveControlPlane(cur[Current])
  <2>1. /\ pc = "control_host" /\ h \in todo /\ h \in Hosts
        /\ nodes' = nodes /\ saved' = saved
        /\ h = SelfLast(todo, kubeconf)
    BY <1>17, <1>b DEF ReconcileControlHost, ReconcileHost, Current
  <2>2. /\ Len(list) \in Nat
        /\ "worker" \notin cur[h] => "kubelet" \in Take(list, Len(list))
    <3>1. "kubelet" \in NodeServices /\ "kubelet" \in WorkerSet
      BY DEF WorkerSet, NodeServices
    <3> QED BY <3>1, RemoveControlPlaneTaken
  <2>3. ReconcileHost(h, "controlplane", list, "control_node")
    BY <1>17 DEF ReconcileControlHost
  <2> HIDE DEF h, list
  <2>4. /\ \A g \in Hosts : g # h => ctr'[g] = ctr[g]
        /\ joined' \subseteq joined
        /\ h \in joined' => ("kubelet" \in ctr[h] => "kubelet" \in ctr'[h])
        /\ warned \subseteq warned' /\ swallowed \subseteq swallowed'
        /\ ~Fail =>
              /\ UNCHANGED <<untracked, interrupted>>
              /\ h \notin warned' \cup swallowed' /\ h \in joined'
                    => "kubelet" \notin Take(list, Len(list))
    BY <2>1, <2>2, <2>3, ReconcileHostFacts DEF OnlyAt
  <2>5. \A g \in joined' : g \in Hosts /\ "kubelet" \in ctr'[g]
    BY <2>1, <2>4
  <2>6. ASSUME NEW g \in joined' \ (Excused \cup interrupted)', ~Fail
        PROVE  g \in nodes'
    <3>1. g \in joined \ (Excused \cup interrupted)
      BY <2>1, <2>4, <2>6
    <3> QED BY <2>1, <2>2, <2>4, <2>6, <3>1
  <2>7. CASE Fail
    <3>1. \A g \in joined' : g \in Excused' \cup interrupted'
      BY <2>1, <2>4, <2>7, KilledNodes
    <3> QED BY <2>5, <3>1
  <2> QED BY <2>5, <2>6, <2>7
<1>18. CASE ControlDeleted
  BY <1>18 DEF ControlDeleted, Goto
<1>19. CASE CertificatesDeployed
  BY <1>19 DEF CertificatesDeployed, Wait, FailIf, Fail, Goto
<1>20. CASE RunEtcd
  BY <1>20, <1>a, <1>b, <1>c DEF RunEtcd
<1>21. CASE EtcdRunning
  BY <1>21 DEF EtcdRunning, Goto
<1>22. CASE ControlRunning
  BY <1>22 DEF ControlRunning, Wait, FailIf, Fail, Goto
<1>23. CASE SaveClusterState
  BY <1>23 DEF SaveClusterState, Recovered, Goto, FailIf, Fail
<1>24. ASSUME NEW h \in Hosts, DeployCertificates(h) PROVE NodeInv'
  BY <1>24 DEF DeployCertificates
<1>25. ASSUME NEW h \in Hosts, DoDeployControlHost(h) PROVE NodeInv'
  <2>1. \A g \in Hosts : "kubelet" \in ctr[g] => "kubelet" \in ctr'[g]
    BY <1>25, DoDeployControlHostFacts DEF OnlyAt
  <2> QED BY <1>25, <2>1 DEF DoDeployControlHost
<1>26. ASSUME NEW h \in Hosts, DoDeployWorkerPlane(h) PROVE NodeInv'
  <2>1. \A g \in Hosts : "kubelet" \in ctr[g] => "kubelet" \in ctr'[g]
    BY <1>26, DoDeployWorkerPlaneFacts DEF OnlyAt
  <2>2. pc \in {"worker_etcd", "worker_control", "worker_worker"}
    BY <1>26 DEF DoDeployWorkerPlane, WorkerStages
  <2> QED BY <1>26, <2>1, <2>2 DEF DoDeployWorkerPlane
<1>27. CASE WorkerStageDone("worker_etcd", "worker_control")
  BY <1>27 DEF WorkerStageDone, WorkerStages, Wait, FailIf, Fail, Goto
<1>28. CASE WorkerStageDone("worker_control", "worker_worker")
  BY <1>28 DEF WorkerStageDone, WorkerStages, Wait, FailIf, Fail, Goto
<1>29. CASE WorkerStageDone("worker_worker", "sync")
  BY <1>29 DEF WorkerStageDone, Wait, FailIf, Fail, Goto
<1>30. CASE FinishUp
  BY <1>30 DEF FinishUp, FailIf, Fail
<1>31. CASE RemovePlaneHost("rm_worker", "worker",
                            RemoveWorkerPlane(conf[Current], TRUE))
  <2>1. Len(RemoveWorkerPlane(conf[Current], TRUE)) \in Nat
    BY RemoveWorkerPlaneTaken
  <2>2. /\ \A g \in Hosts : g # Current => ctr'[g] = ctr[g]
        /\ joined' \subseteq joined
        /\ Current \in joined' =>
              ("kubelet" \in ctr[Current] => "kubelet" \in ctr'[Current])
    BY <1>31, <2>1, RemovePlaneHostFacts DEF OnlyAt
  <2> QED BY <1>31, <2>2 DEF RemovePlaneHost, FailIf, Fail
<1>32. CASE RemovePlaneHost("rm_control", "controlplane",
                            RemoveControlPlane(conf[Current]))
  <2>1. Len(RemoveControlPlane(conf[Current])) \in Nat
    BY RemoveControlPlaneTaken
  <2>2. /\ \A g \in Hosts : g # Current => ctr'[g] = ctr[g]
        /\ joined' \subseteq joined
        /\ Current \in joined' =>
              ("kubelet" \in ctr[Current] => "kubelet" \in ctr'[Current])
    BY <1>32, <2>1, RemovePlaneHostFacts DEF OnlyAt
  <2> QED BY <1>32, <2>2 DEF RemovePlaneHost, FailIf, Fail
<1>33. CASE RemovePlaneHost("rm_etcd", "etcd",
                            RemoveEtcdPlane(conf[Current], TRUE))
  <2>1. Len(RemoveEtcdPlane(conf[Current], TRUE)) \in Nat
    BY RemoveEtcdPlaneTaken
  <2>2. /\ \A g \in Hosts : g # Current => ctr'[g] = ctr[g]
        /\ joined' \subseteq joined
        /\ Current \in joined' =>
              ("kubelet" \in ctr[Current] => "kubelet" \in ctr'[Current])
    BY <1>33, <2>1, RemovePlaneHostFacts DEF OnlyAt
  <2> QED BY <1>33, <2>2 DEF RemovePlaneHost, FailIf, Fail
<1>34. CASE RemoveStageDone("rm_worker", "rm_control", ControlHosts(conf))
  BY <1>34 DEF RemoveStageDone, Goto
<1>35. CASE RemoveStageDone("rm_control", "rm_etcd", EtcdHosts(conf))
  BY <1>35 DEF RemoveStageDone, Goto
<1>36. CASE RemoveStageDone("rm_etcd", "rm_clean", HostsOf(conf))
  BY <1>36 DEF RemoveStageDone, Goto
<1>37. CASE CleanUpHost
  <2>1. ASSUME NEW g \in joined \ Excused PROVE FALSE
    <3>1. pc = "rm_clean" /\ "kubelet" \in ctr[g] /\ g \in Hosts
      BY <1>37 DEF CleanUpHost
    <3>2. RemoveFits(g) /\ conf[g] \subseteq Roles
      BY <2>1, <3>1 DEF BoundInv
    <3>3. conf[g] # {} /\ NodeServices \cap ctr[g] # {}
      BY <3>1, <3>2 DEF RemoveFits, Fits, NodeServices
    <3> QED BY <3>1, <3>2, <3>3 DEF RemoveFits, Roles
  <2> QED BY <1>37, <2>1 DEF CleanUpHost
<1>38. CASE FinishRemove
  BY <1>38 DEF FinishRemove
<1>39. CASE Abort
  <2>1. todo # {} => SelfLast(todo, kubeconf) \in todo
    BY CurrentIn
  <2> QED BY <1>39, <1>b, <2>1 DEF Abort, FailIf, Fail
<1>40. ASSUME NEW h \in Hosts, KubeletRegisters(h) PROVE NodeInv'
  BY <1>40 DEF KubeletRegisters
<1>41. CASE UNCHANGED vars
  BY <1>41 DEF vars
<1> QED
  BY <1>1, <1>2, <1>3, <1>4, <1>5, <1>6, <1>7, <1>8, <1>9, <1>10, <1>11, <1>12,
     <1>13, <1>14, <1>15, <1>16, <1>17, <1>18, <1>19, <1>20, <1>21, <1>22,
     <1>23, <1>24, <1>25, <1>26, <1>27, <1>28, <1>29, <1>30, <1>31, <1>32,
     <1>33, <1>34, <1>35, <1>36, <1>37, <1>38, <1>39, <1>40, <1>41
     DEF Next, RkeStep, Reconcile, DeployPlanes, ClusterRemove, RemovePlanes

\* A run reports success only when the API server, and so etcd, has answered.
LEMMA ServesStep == UpInv /\ [Next]_vars => ServesInv'
<1> SUFFICES ASSUME UpInv, [Next]_vars PROVE ServesInv'
  OBVIOUS
<1> USE DEF LoseTrack,
            UpInv, LoopInv, ServesInv, Stages, ReconcileStages, EtcdLoop,
            AddLoop, WorkerLoop, ControlLoop, DeployStages, AfterSave,
            RemoveStages, hostVars, clusterVars, procVars, history
<1>1. ASSUME NEW c \in Configs, StartUp(c) PROVE ServesInv'
  BY <1>1 DEF StartUp
<1>2. CASE StartRemove
  BY <1>2 DEF StartRemove
<1>3. CASE GetClusterState
  BY <1>3 DEF GetClusterState
<1>4. CASE UseFetchedCertificates
  BY <1>4 DEF UseFetchedCertificates, Goto
<1>5. CASE RecoverOrGenerate
  BY <1>5 DEF RecoverOrGenerate, Goto
<1>6. CASE ReconcileEtcdMember
  BY <1>6 DEF ReconcileEtcdMember, Goto
<1>7. CASE ReconcileEtcdNode
  BY <1>7 DEF ReconcileEtcdNode, Goto, NodesAfterDelete, DeleteNodeWorks
<1>8. CASE ReconcileEtcdHost
  BY <1>8 DEF ReconcileEtcdHost, ReconcileHost, TakeDown,
     FailIf, Fail
<1>9. CASE EtcdDeleted
  BY <1>9 DEF EtcdDeleted, Goto
<1>10. CASE AddEtcdMember
  BY <1>10 DEF AddEtcdMember, Goto, FailIf, Fail
<1>11. CASE ReloadEtcdCluster
  BY <1>11 DEF ReloadEtcdCluster, Goto, FailIf, Fail, LoopPrefixes, ReadyHosts
<1>12. CASE EtcdAdded
  BY <1>12 DEF EtcdAdded, Goto
<1>13. CASE ReconcileWorkerNode
  BY <1>13 DEF ReconcileWorkerNode, Goto, FailIf, Fail, NodesAfterDelete
<1>14. CASE ReconcileWorkerHost
  BY <1>14 DEF ReconcileWorkerHost, ReconcileHost, TakeDown,
     FailIf, Fail
<1>15. CASE WorkersDeleted
  BY <1>15 DEF WorkersDeleted, Goto
<1>16. CASE ReconcileControlNode
  BY <1>16 DEF ReconcileControlNode, Goto, FailIf, Fail, NodesAfterDelete
<1>17. CASE ReconcileControlHost
  BY <1>17 DEF ReconcileControlHost, ReconcileHost, TakeDown,
     FailIf, Fail
<1>18. CASE ControlDeleted
  BY <1>18 DEF ControlDeleted, Goto
<1>19. CASE CertificatesDeployed
  BY <1>19 DEF CertificatesDeployed, Wait, FailIf, Fail, Goto
<1>20. CASE RunEtcd
  BY <1>20 DEF RunEtcd
<1>21. CASE EtcdRunning
  BY <1>21 DEF EtcdRunning, Goto
<1>22. CASE ControlRunning
  BY <1>22 DEF ControlRunning, Wait, FailIf, Fail, Goto
<1>23. CASE SaveClusterState
  BY <1>23 DEF SaveClusterState, Goto, FailIf, Fail
<1>24. ASSUME NEW h \in Hosts, DeployCertificates(h) PROVE ServesInv'
  BY <1>24 DEF DeployCertificates
<1>25. ASSUME NEW h \in Hosts, DoDeployControlHost(h) PROVE ServesInv'
  BY <1>25 DEF DoDeployControlHost
<1>26. ASSUME NEW h \in Hosts, DoDeployWorkerPlane(h) PROVE ServesInv'
  BY <1>26 DEF DoDeployWorkerPlane, WorkerStages
<1>27. CASE WorkerStageDone("worker_etcd", "worker_control")
  BY <1>27 DEF WorkerStageDone, WorkerStages, Wait, FailIf, Fail, Goto
<1>28. CASE WorkerStageDone("worker_control", "worker_worker")
  BY <1>28 DEF WorkerStageDone, WorkerStages, Wait, FailIf, Fail, Goto
<1>29. CASE WorkerStageDone("worker_worker", "sync")
  BY <1>29 DEF WorkerStageDone, Wait, FailIf, Fail, Goto
<1>30. CASE FinishUp
  <2>1. ApiUp(kubeconf) => EtcdUp
    BY DEF ApiUp, ApiServes
  <2>2. UNCHANGED <<members, ctr, files>>
    BY <1>30 DEF FinishUp
  <2>3. EtcdUp => EtcdUp'
    BY <2>2 DEF EtcdUp, Alive
  <2> QED BY <1>30, <2>1, <2>3 DEF FinishUp, FailIf, Fail
<1>31. CASE RemovePlaneHost("rm_worker", "worker",
                            RemoveWorkerPlane(conf[Current], TRUE))
  BY <1>31 DEF RemovePlaneHost, TakeDown, FailIf, Fail
<1>32. CASE RemovePlaneHost("rm_control", "controlplane",
                            RemoveControlPlane(conf[Current]))
  BY <1>32 DEF RemovePlaneHost, TakeDown, FailIf, Fail
<1>33. CASE RemovePlaneHost("rm_etcd", "etcd",
                            RemoveEtcdPlane(conf[Current], TRUE))
  BY <1>33 DEF RemovePlaneHost, TakeDown, FailIf, Fail
<1>34. CASE RemoveStageDone("rm_worker", "rm_control", ControlHosts(conf))
  BY <1>34 DEF RemoveStageDone, Goto
<1>35. CASE RemoveStageDone("rm_control", "rm_etcd", EtcdHosts(conf))
  BY <1>35 DEF RemoveStageDone, Goto
<1>36. CASE RemoveStageDone("rm_etcd", "rm_clean", HostsOf(conf))
  BY <1>36 DEF RemoveStageDone, Goto
<1>37. CASE CleanUpHost
  BY <1>37 DEF CleanUpHost
<1>38. CASE FinishRemove
  BY <1>38 DEF FinishRemove
<1>39. CASE Abort
  BY <1>39 DEF Abort, FailIf, Fail
<1>40. ASSUME NEW h \in Hosts, KubeletRegisters(h) PROVE ServesInv'
  BY <1>40 DEF KubeletRegisters, EtcdUp, Alive
<1>41. CASE UNCHANGED vars
  BY <1>41 DEF vars, EtcdUp, Alive
<1> QED
  BY <1>1, <1>2, <1>3, <1>4, <1>5, <1>6, <1>7, <1>8, <1>9, <1>10, <1>11, <1>12,
     <1>13, <1>14, <1>15, <1>16, <1>17, <1>18, <1>19, <1>20, <1>21, <1>22,
     <1>23, <1>24, <1>25, <1>26, <1>27, <1>28, <1>29, <1>30, <1>31, <1>32,
     <1>33, <1>34, <1>35, <1>36, <1>37, <1>38, <1>39, <1>40, <1>41
     DEF Next, RkeStep, Reconcile, DeployPlanes, ClusterRemove, RemovePlanes

\* The kubeconfig and the backups name hosts, and only valid configurations are
\* stored.
LEMMA StoreStep == UpInv /\ StoreInv /\ [Next]_vars => StoreInv'
<1> SUFFICES ASSUME UpInv, StoreInv, [Next]_vars PROVE StoreInv'
  OBVIOUS
<1> USE DEF UpInv, TypeInv, StoreInv, ValidConfigs, Stages, ReconcileStages,
            EtcdLoop, AddLoop, WorkerLoop, ControlLoop, DeployStages,
            AfterSave, RemoveStages, hostVars, clusterVars, procVars, history,
            HostsOf, EtcdHosts, ControlHosts, Plane, ValidateCluster, NoConfig
<1>1. ASSUME NEW c \in Configs, StartUp(c) PROVE StoreInv'
  BY <1>1, ConfigsAssumption DEF StartUp
<1>2. CASE StartRemove
  BY <1>2, LoseTrackFacts DEF StartRemove
<1>3. CASE GetClusterState
  <2>1. ControlHosts(conf) \in SUBSET Hosts /\ ControlHosts(conf) # {}
    BY <1>3 DEF GetClusterState
  <2>2. FirstWorking(ControlHosts(conf)) \in Hosts
    BY <2>1, FirstWorkingIn
  <2> QED BY <1>3, <2>2, LoseTrackFacts DEF GetClusterState
<1>4. CASE UseFetchedCertificates
  BY <1>4 DEF UseFetchedCertificates, Goto
<1>5. CASE RecoverOrGenerate
  <2> DEFINE first == FirstHost(EtcdHosts(conf))
             from == IF FetchCertificatesFromHost(first) THEN backup[first]
                     ELSE conf
  <2>1. EtcdHosts(conf) \in SUBSET Hosts /\ EtcdHosts(conf) # {}
    BY <1>5 DEF RecoverOrGenerate
  <2>2. first \in Hosts
    BY <2>1, FirstHostIn
  <2>3. conf \in ValidConfigs
    BY <1>5 DEF RecoverOrGenerate
  <2>4. from \in ValidConfigs
    BY <2>2, <2>3 DEF FetchCertificatesFromHost
  <2>5. ControlHosts(from) \in SUBSET Hosts /\ ControlHosts(from) # {}
    BY <2>4
  <2>6. FirstHost(ControlHosts(from)) \in Hosts
    BY <2>5, FirstHostIn
  <2>7. backup' = [backup EXCEPT ![first] = from]
        /\ admin' = FirstHost(ControlHosts(from))
    BY <1>5 DEF RecoverOrGenerate
  <2> HIDE DEF first, from
  <2>8. backup' \in [Hosts -> ValidConfigs \cup {NoConfig}]
    BY <2>2, <2>4, <2>7
  <2> QED BY <1>5, <2>6, <2>7, <2>8 DEF RecoverOrGenerate, Goto
<1>6. CASE ReconcileEtcdMember
  BY <1>6 DEF ReconcileEtcdMember, Goto
<1>7. CASE ReconcileEtcdNode
  BY <1>7 DEF ReconcileEtcdNode, Goto, NodesAfterDelete, DeleteNodeWorks
<1>8. CASE ReconcileEtcdHost
  <2>1. /\ UNCHANGED <<backup, saved, kubeconf, conf, admin>>
        /\ faults' = faults \/ faults' = faults + 1
        /\ UNCHANGED <<untracked, lost>> \/ LoseTrack(HostsOf(conf))
        /\ pc # "idle"
    BY <1>8 DEF ReconcileEtcdHost, ReconcileHost, FailIf, Fail
  <2> QED BY <2>1, LoseTrackFacts
<1>9. CASE EtcdDeleted
  BY <1>9 DEF EtcdDeleted, Goto
<1>10. CASE AddEtcdMember
  BY <1>10, LoseTrackFacts DEF AddEtcdMember, Goto, FailIf, Fail
<1>11. CASE ReloadEtcdCluster
  BY <1>11, LoseTrackFacts
     DEF ReloadEtcdCluster, Goto, FailIf, Fail, LoopPrefixes, ReadyHosts
<1>12. CASE EtcdAdded
  BY <1>12 DEF EtcdAdded, Goto
<1>13. CASE ReconcileWorkerNode
  BY <1>13, LoseTrackFacts
     DEF ReconcileWorkerNode, Goto, FailIf, Fail, NodesAfterDelete
<1>14. CASE ReconcileWorkerHost
  <2>1. /\ UNCHANGED <<backup, saved, kubeconf, conf, admin>>
        /\ faults' = faults \/ faults' = faults + 1
        /\ UNCHANGED <<untracked, lost>> \/ LoseTrack(HostsOf(conf))
        /\ pc # "idle"
    BY <1>14 DEF ReconcileWorkerHost, ReconcileHost, FailIf, Fail
  <2> QED BY <2>1, LoseTrackFacts
<1>15. CASE WorkersDeleted
  BY <1>15 DEF WorkersDeleted, Goto
<1>16. CASE ReconcileControlNode
  BY <1>16, LoseTrackFacts
     DEF ReconcileControlNode, Goto, FailIf, Fail, NodesAfterDelete
<1>17. CASE ReconcileControlHost
  <2>1. /\ UNCHANGED <<backup, saved, kubeconf, conf, admin>>
        /\ faults' = faults \/ faults' = faults + 1
        /\ UNCHANGED <<untracked, lost>> \/ LoseTrack(HostsOf(conf))
        /\ pc # "idle"
    BY <1>17 DEF ReconcileControlHost, ReconcileHost, FailIf, Fail
  <2> QED BY <2>1, LoseTrackFacts
<1>18. CASE ControlDeleted
  <2>1. ControlHosts(conf) \in SUBSET Hosts /\ ControlHosts(conf) # {}
    BY <1>18 DEF ControlDeleted
  <2>2. FirstWorking(ControlHosts(conf)) \in Hosts
    BY <2>1, FirstWorkingIn
  <2> QED BY <1>18, <2>2 DEF ControlDeleted, Goto
<1>19. CASE CertificatesDeployed
  BY <1>19, LoseTrackFacts DEF CertificatesDeployed, Wait, FailIf, Fail, Goto
<1>20. CASE RunEtcd
  BY <1>20 DEF RunEtcd
<1>21. CASE EtcdRunning
  BY <1>21 DEF EtcdRunning, Goto
<1>22. CASE ControlRunning
  BY <1>22, LoseTrackFacts DEF ControlRunning, Wait, FailIf, Fail, Goto
<1>23. CASE SaveClusterState
  BY <1>23, LoseTrackFacts DEF SaveClusterState, Goto, FailIf, Fail
<1>24. ASSUME NEW h \in Hosts, DeployCertificates(h) PROVE StoreInv'
  BY <1>24 DEF DeployCertificates
<1>25. ASSUME NEW h \in Hosts, DoDeployControlHost(h) PROVE StoreInv'
  BY <1>25 DEF DoDeployControlHost, Deploy
<1>26. ASSUME NEW h \in Hosts, DoDeployWorkerPlane(h) PROVE StoreInv'
  BY <1>26 DEF DoDeployWorkerPlane, Deploy
<1>27. CASE WorkerStageDone("worker_etcd", "worker_control")
  BY <1>27, LoseTrackFacts
     DEF WorkerStageDone, WorkerStages, Wait, FailIf, Fail, Goto
<1>28. CASE WorkerStageDone("worker_control", "worker_worker")
  BY <1>28, LoseTrackFacts
     DEF WorkerStageDone, WorkerStages, Wait, FailIf, Fail, Goto
<1>29. CASE WorkerStageDone("worker_worker", "sync")
  BY <1>29, LoseTrackFacts DEF WorkerStageDone, Wait, FailIf, Fail, Goto
<1>30. CASE FinishUp
  BY <1>30, LoseTrackFacts DEF FinishUp, FailIf, Fail
<1>31. CASE RemovePlaneHost("rm_worker", "worker",
                            RemoveWorkerPlane(conf[Current], TRUE))
  <2>1. /\ UNCHANGED <<backup, saved, kubeconf, conf, admin>>
        /\ faults' = faults \/ faults' = faults + 1
        /\ UNCHANGED <<untracked, lost>> \/ LoseTrack(HostsOf(conf))
        /\ pc # "idle"
    BY <1>31 DEF RemovePlaneHost, FailIf, Fail
  <2> QED BY <2>1, LoseTrackFacts
<1>32. CASE RemovePlaneHost("rm_control", "controlplane",
                            RemoveControlPlane(conf[Current]))
  <2>1. /\ UNCHANGED <<backup, saved, kubeconf, conf, admin>>
        /\ faults' = faults \/ faults' = faults + 1
        /\ UNCHANGED <<untracked, lost>> \/ LoseTrack(HostsOf(conf))
        /\ pc # "idle"
    BY <1>32 DEF RemovePlaneHost, FailIf, Fail
  <2> QED BY <2>1, LoseTrackFacts
<1>33. CASE RemovePlaneHost("rm_etcd", "etcd",
                            RemoveEtcdPlane(conf[Current], TRUE))
  <2>1. /\ UNCHANGED <<backup, saved, kubeconf, conf, admin>>
        /\ faults' = faults \/ faults' = faults + 1
        /\ UNCHANGED <<untracked, lost>> \/ LoseTrack(HostsOf(conf))
        /\ pc # "idle"
    BY <1>33 DEF RemovePlaneHost, FailIf, Fail
  <2> QED BY <2>1, LoseTrackFacts
<1>34. CASE RemoveStageDone("rm_worker", "rm_control", ControlHosts(conf))
  BY <1>34 DEF RemoveStageDone, Goto
<1>35. CASE RemoveStageDone("rm_control", "rm_etcd", EtcdHosts(conf))
  BY <1>35 DEF RemoveStageDone, Goto
<1>36. CASE RemoveStageDone("rm_etcd", "rm_clean", HostsOf(conf))
  BY <1>36 DEF RemoveStageDone, Goto
<1>37. CASE CleanUpHost
  <2>1. todo \in SUBSET Hosts /\ todo # {}
    BY <1>37 DEF CleanUpHost
  <2>2. Current \in Hosts
    BY <2>1, CurrentIn
  <2>3. backup' \in [Hosts -> ValidConfigs \cup {NoConfig}]
    BY <1>37, <2>2 DEF CleanUpHost
  <2> QED BY <1>37, <2>3 DEF CleanUpHost
<1>38. CASE FinishRemove
  BY <1>38 DEF FinishRemove
<1>39. CASE Abort
  BY <1>39, LoseTrackFacts DEF Abort, FailIf, Fail
<1>40. ASSUME NEW h \in Hosts, KubeletRegisters(h) PROVE StoreInv'
  BY <1>40 DEF KubeletRegisters
<1>41. CASE UNCHANGED vars
  BY <1>41 DEF vars
<1> QED
  BY <1>1, <1>2, <1>3, <1>4, <1>5, <1>6, <1>7, <1>8, <1>9, <1>10, <1>11, <1>12,
     <1>13, <1>14, <1>15, <1>16, <1>17, <1>18, <1>19, <1>20, <1>21, <1>22,
     <1>23, <1>24, <1>25, <1>26, <1>27, <1>28, <1>29, <1>30, <1>31, <1>32,
     <1>33, <1>34, <1>35, <1>36, <1>37, <1>38, <1>39, <1>40, <1>41
     DEF Next, RkeStep, Reconcile, DeployPlanes, ClusterRemove, RemovePlanes

\* Without errors no step leaves the track: the reconciler keeps an etcd
\* majority and the API server it talks to until it needs them no longer.
LEMMA ReachStep == UpInv /\ ReachInv /\ [Next]_vars /\ Clean' => OnTrack'
<1> SUFFICES ASSUME UpInv, ReachInv, [Next]_vars, Clean' PROVE OnTrack'
  OBVIOUS
<1> USE DEF LoseTrack,
            PortTaken, UpInv, TypeInv, LoopInv, StoreInv, ReachInv, Clean,
            OnTrack, QuietInv, SettledInv, MembershipInv, AccessInv,
            LeavingMembers, JoiningMembers, KeepsEtcd, MembersUp, Serves,
            Stages, ReconcileStages, EtcdLoop, AddLoop, WorkerLoop,
            ControlLoop, DeployStages, AfterSave, RemoveStages, hostVars,
            clusterVars, procVars, history, HostsOf, EtcdHosts, ControlHosts,
            Plane, GetToDeleteHosts, GetToAddHosts, ValidateCluster, NoConfig
<1>b. todo # {} => Current \in todo /\ FirstHost(todo) \in todo
  BY CurrentIn DEF UpInv, TypeInv
<1>c. pc \notin {"control_node", "control_host", "rm_clean"} =>
        Current = FirstHost(todo)
  BY DEF Current
<1>1. ASSUME NEW c \in Configs, StartUp(c) PROVE OnTrack'
  BY <1>1 DEF StartUp
<1>2. CASE StartRemove
  BY <1>2 DEF StartRemove
<1>3. CASE GetClusterState
  <2>1. ControlHosts(conf) \in SUBSET Hosts /\ ControlHosts(conf) # {}
    BY <1>3 DEF GetClusterState
  <2>2. FirstWorking(ControlHosts(conf)) \in Hosts
    BY <2>1, FirstWorkingIn
  <2>3. /\ pc = "state" /\ pc' = "auth" /\ Clean
        /\ UNCHANGED <<ctr, files, trusted, proxied, members, saved, conf,
                       swallowed, warned, failed>>
    BY <1>3 DEF GetClusterState
  <2>4. CASE saved = NoConfig
    BY <2>3, <2>4
  <2>5. CASE saved # NoConfig
    <3>1. HostsOf(saved) # {}
      BY <2>5
    <3>2. ApiUp(kubeconf') /\ kubeconf' \in Hosts \cup {NoHost}
      BY <1>3, <2>2, <3>1 DEF GetClusterState
    <3>3. /\ kubeconf' \in Hosts /\ kubeconf' \in trusted
          /\ kubeconf' \notin proxied /\ "api" \in ctr[kubeconf']
      BY <3>2 DEF ApiUp, ApiServes
    <3>4. kubeconf # NoHost
      BY <1>3, <3>3, ConfigsAssumption DEF GetClusterState
    <3> QED BY <2>3, <2>5, <3>3, <3>4
  <2> QED BY <2>4, <2>5
<1>4. CASE UseFetchedCertificates
  BY <1>4 DEF UseFetchedCertificates, Goto
<1>5. CASE RecoverOrGenerate
  <2> DEFINE first == FirstHost(EtcdHosts(conf))
             from == IF FetchCertificatesFromHost(first) THEN backup[first]
                     ELSE conf
  <2>1. /\ pc = "auth" /\ pc' = "certs" /\ Clean /\ cur = NoConfig
        /\ UNCHANGED <<ctr, files, trusted, proxied, members, saved, conf,
                       swallowed, warned, failed>>
        /\ sans' = ControlHosts(from)
        /\ admin' = FirstHost(ControlHosts(from))
    BY <1>5 DEF RecoverOrGenerate, Goto
  <2>2. EtcdHosts(conf) \in SUBSET Hosts /\ EtcdHosts(conf) # {}
    BY <2>1
  <2>3. first \in Hosts
    BY <2>2, FirstHostIn
  <2>4. from \in ValidConfigs
    <3>1. conf \in ValidConfigs
      BY <2>1 DEF ValidConfigs
    <3> QED BY <2>3, <3>1 DEF FetchCertificatesFromHost
  <2>5. ControlHosts(from) \in SUBSET Hosts /\ ControlHosts(from) # {}
    BY <2>4 DEF ValidConfigs
  <2> HIDE DEF first, from
  <2>6. admin' \in sans'
    BY <2>1, <2>5, FirstHostIn
  <2>7. saved = NoConfig /\ members = {} /\ warned = {} /\ swallowed = {}
        /\ ~failed
    <3>1. \A h \in Hosts : saved[h] = {}
      BY <2>1
    <3>2. saved = NoConfig
      BY <3>1
    <3> QED BY <2>1, <3>2
  <2>8. ASSUME NEW h \in Hosts
        PROVE  "nginx" \notin ctr[h] /\ "api" \notin ctr[h]
    <3>1. h \in Hosts \ Excused
      BY <2>1, <2>7 DEF Excused
    <3>2. Fits(h, saved[h]) /\ saved[h] = {}
      BY <2>1, <2>7, <3>1 DEF BoundInv
    <3> QED BY <3>2 DEF Fits, MasterServices
  <2> QED BY <2>1, <2>6, <2>7, <2>8
<1>6. CASE ReconcileEtcdMember
  <2>1. /\ pc = "etcd_member" /\ todo # {} /\ Clean
        /\ UNCHANGED <<ctr, files, trusted, proxied, kubeconf, saved, conf,
                       swallowed, failed, sans>>
    BY <1>6 DEF ReconcileEtcdMember, Goto
  <2>2. MembersUp /\ Serves /\ members \in SUBSET Hosts
    BY <2>1
  <2>3. CASE KeepsEtcd
    <3>1. members = LeavingMembers
      BY <2>1, <2>3
    <3>2. PICK e \in Hosts : "etcd" \in saved[e] /\ "etcd" \in conf[e]
      BY <2>3
    <3>3. e \in members /\ Current \in members
      BY <2>1, <3>1, <3>2, <1>b
    <3>4. EtcdUp /\ Alive = members
      BY <2>2, <3>3, AllUp
    <3>5. CanRemoveMember(Current)
      BY <3>2, <3>3, <3>4 DEF CanRemoveMember
    <3>6. /\ members' = members \ {FirstHost(todo)} /\ pc' = "etcd_node"
          /\ todo' = todo /\ warned' = warned
      BY <1>6, <2>1, <3>5, <1>c DEF ReconcileEtcdMember, Goto
    <3> QED BY <2>1, <2>2, <2>3, <3>1, <3>6
  <2>4. CASE ~KeepsEtcd
    <3>1. members \subseteq EtcdHosts(saved)
      BY <2>1, <2>4
    <3>2. ~CanRemoveMember(Current)
      BY <2>4, <3>1 DEF CanRemoveMember, Alive
    <3>3. pc' = pc /\ members' = members /\ todo' \subseteq todo
      BY <1>6, <3>2 DEF ReconcileEtcdMember
    <3> QED BY <2>1, <2>2, <2>4, <3>1, <3>3
  <2> QED BY <2>3, <2>4
<1>7. CASE ReconcileEtcdNode
  <2>1. /\ pc = "etcd_node" /\ Clean
        /\ UNCHANGED <<ctr, files, trusted, proxied, kubeconf, saved, conf,
                       members, swallowed, failed, sans>>
    BY <1>7 DEF ReconcileEtcdNode, Goto
  <2>2. /\ MembersUp /\ Serves /\ members \in SUBSET Hosts
        /\ KeepsEtcd /\ members = LeavingMembers
    BY <2>1
  <2>3. PICK e \in Hosts : "etcd" \in saved[e] /\ "etcd" \in conf[e]
    BY <2>2
  <2>4. e \in members
    BY <2>1, <2>2, <2>3, <1>b
  <2>5. ApiUp(kubeconf)
    BY <2>2, <2>4, AllUp, ConfigsAssumption DEF ApiUp, ApiServes
  <2>6. pc' = "etcd_host" /\ todo' = todo /\ warned' = warned
    BY <1>7, <2>5 DEF ReconcileEtcdNode, DeleteNodeWorks, Goto
  <2> QED BY <2>1, <2>2, <2>6
<1>8. CASE ReconcileEtcdHost
  <2> DEFINE h == Current
             list == RemoveEtcdPlane(cur[Current], FALSE)
  <2>1. pc = "etcd_host" /\ h \in todo /\ h \in Hosts
    BY <1>8, <1>b DEF ReconcileEtcdHost
  <2>2. Len(list) \in Nat
    BY RemoveEtcdPlaneTaken
  <2>3. ReconcileHost(h, "etcd", list, "etcd_member")
    BY <1>8 DEF ReconcileEtcdHost
  <2>4. "api" \notin Take(list, Len(list)) /\ h = FirstHost(todo)
    <3>1. Take(list, Len(list)) =
            {"etcd"} \cup
            IF {"worker", "controlplane"} \subseteq cur[h] /\ ~FALSE THEN {}
            ELSE WorkerSet
      BY RemoveEtcdPlaneTaken, Zenon
    <3> QED BY <3>1, <1>c, <2>1 DEF WorkerSet, NodeServices
  <2> HIDE DEF h, list
  <2>5. "etcd" \in saved[h] /\ "etcd" \notin conf[h]
    BY <2>1
  <2>6. Clean
    BY <2>3 DEF ReconcileHost, FailIf, Fail
  <2>7. /\ MembersUp /\ Serves /\ members \in SUBSET Hosts
        /\ KeepsEtcd /\ members = LeavingMembers /\ h \notin members
    BY <2>1, <2>4, <2>6
  <2>8. /\ pc' = "etcd_member" /\ todo' = todo \ {h}
        /\ UNCHANGED <<members, saved, failed, conf, sans, warned, swallowed>>
        /\ MembersUp' /\ Serves'
    BY <2>1, <2>2, <2>3, <2>4, <2>7, ReconcileHostReach DEF h
  <2>9. members' = LeavingMembers'
    BY <2>1, <2>4, <2>5, <2>7, <2>8
  <2> QED BY <2>1, <2>6, <2>7, <2>8, <2>9
<1>9. CASE EtcdDeleted
  <2>1. /\ pc = "etcd_member" /\ todo = {} /\ Clean /\ pc' = "etcd_add"
        /\ todo' = GetToAddHosts("etcd")
        /\ UNCHANGED <<hostVars, clusterVars, kubeconf, failed, conf, sans,
                       history>>
    BY <1>9 DEF EtcdDeleted, Goto
  <2>2. \A h \in Hosts : cur[h] = saved[h]
    BY <2>1 DEF CurAt
  <2>3. todo' = EtcdHosts(conf) \ EtcdHosts(saved)
    BY <2>1, <2>2
  <2> QED BY <2>1, <2>3
<1>10. CASE AddEtcdMember
  <2>1. /\ pc = "etcd_add" /\ todo # {} /\ Clean
        /\ UNCHANGED <<ctr, proxied, trusted, saved, kubeconf>>
    BY <1>10 DEF AddEtcdMember, Goto, FailIf, Fail
  <2>2. ~Fail
    BY <2>1, CleanFail
  <2>3. /\ CanAddMember(Current) /\ members' = members \cup {Current}
        /\ pc' = "etcd_reload" /\ UNCHANGED <<procVars, history>>
    BY <1>10, <2>2 DEF AddEtcdMember, FailIf, Goto
  <2>4. members \subseteq EtcdHosts(saved) => KeepsEtcd
    BY <2>3 DEF CanAddMember, Alive
  <2>5. KeepsEtcd /\ members = JoiningMembers
    BY <2>1, <2>4
  <2> QED BY <2>1, <2>3, <2>5, <1>b, <1>c
<1>11. CASE ReloadEtcdCluster
  <2>1. ~Fail
    BY <1>11, CleanFail DEF ReloadEtcdCluster
  <2> QED BY <1>11, <2>1, <1>b, <1>c DEF ReloadEtcdCluster, Goto, FailIf,
             LoopPrefixes, ReadyHosts
<1>12. CASE EtcdAdded
  BY <1>12 DEF EtcdAdded, Goto
<1>13. CASE ReconcileWorkerNode
  <2>1. ~Fail
    BY <1>13, CleanFail DEF ReconcileWorkerNode
  <2> QED BY <1>13, <2>1, <1>b, <1>c DEF ReconcileWorkerNode, Goto, FailIf
<1>14. CASE ReconcileWorkerHost
  <2> DEFINE h == Current
             list == RemoveWorkerPlane(cur[Current], FALSE)
  <2>1. pc = "worker_host" /\ h \in todo /\ h \in Hosts
    BY <1>14, <1>b DEF ReconcileWorkerHost
  <2>2. Len(list) \in Nat
    BY RemoveWorkerPlaneTaken
  <2>3. ReconcileHost(h, "worker", list, "worker_node")
    BY <1>14 DEF ReconcileWorkerHost
  <2>4. /\ {"api", "etcd"} \cap Take(list, Len(list)) = {}
        /\ "etcd" \notin CleanUpPaths("worker", cur[h])
    <3>1. Take(list, Len(list)) =
            IF "controlplane" \in cur[h] THEN {} ELSE WorkerSet
      BY RemoveWorkerPlaneTaken
    <3> QED BY <3>1 DEF WorkerSet, NodeServices, CleanUpPaths
  <2> HIDE DEF h, list
  <2>5. Clean
    BY <2>3 DEF ReconcileHost, FailIf, Fail
  <2>6. /\ MembersUp /\ Serves /\ members \in SUBSET Hosts
    BY <2>1, <2>5
  <2>7. /\ pc' = "worker_node"
        /\ UNCHANGED <<members, saved, failed, conf, sans, warned, swallowed>>
        /\ MembersUp' /\ Serves'
    BY <2>1, <2>2, <2>3, <2>4, <2>6, ReconcileHostReach
  <2> QED BY <2>1, <2>5, <2>7
<1>15. CASE WorkersDeleted
  BY <1>15 DEF WorkersDeleted, Goto
<1>16. CASE ReconcileControlNode
  <2>1. ~Fail
    BY <1>16, CleanFail DEF ReconcileControlNode
  <2> QED BY <1>16, <2>1, <1>b, <1>c DEF ReconcileControlNode, Goto, FailIf
<1>17. CASE ReconcileControlHost
  <2> DEFINE h == Current
             list == RemoveControlPlane(cur[Current])
  <2>1. pc = "control_host" /\ h \in todo /\ h \in Hosts
    BY <1>17, <1>b DEF ReconcileControlHost
  <2>2. Len(list) \in Nat
    BY RemoveControlPlaneTaken
  <2>3. ReconcileHost(h, "controlplane", list, "control_node")
    BY <1>17 DEF ReconcileControlHost
  <2>4. /\ "etcd" \notin Take(list, Len(list))
        /\ "etcd" \notin CleanUpPaths("controlplane", cur[h])
    BY RemoveControlPlaneTaken
       DEF MasterServices, NodeServices, CleanUpPaths
  <2>5. todo = {kubeconf} \/ h # kubeconf
    <3>1. h = SelfLast(todo, kubeconf)
      BY <2>1 DEF Current
    <3>2. CASE ~(todo \subseteq {kubeconf})
      <4>1. h = FirstHost(todo \ {kubeconf})
        BY <3>1, <3>2 DEF SelfLast
      <4>2. h \in todo \ {kubeconf}
        BY <3>2, <4>1, FirstHostIn
      <4> QED BY <4>2
    <3> QED BY <2>1, <3>2
  <2> HIDE DEF h, list
  <2>6. Clean
    BY <2>3 DEF ReconcileHost, FailIf, Fail
  <2>7. /\ MembersUp /\ Serves /\ members \in SUBSET Hosts
    BY <2>1, <2>6
  <2>8. /\ pc' = "control_node" /\ todo' = todo \ {h}
        /\ UNCHANGED <<members, saved, failed, conf, sans, warned, swallowed>>
        /\ MembersUp'
        /\ kubeconf # h => Serves'
    BY <2>1, <2>2, <2>3, <2>4, <2>7, ReconcileHostReach DEF h
  <2>9. todo' # {} => Serves'
    BY <2>1, <2>5, <2>8
  <2> QED BY <2>1, <2>6, <2>8, <2>9
<1>18. CASE ControlDeleted
  <2>1. ControlHosts(conf) \in SUBSET Hosts /\ ControlHosts(conf) # {}
    BY <1>18 DEF ControlDeleted
  <2>2. FirstWorking(ControlHosts(conf)) \in ControlHosts(conf)
    BY <2>1, FirstWorkingIn
  <2>3. /\ pc = "control_node" /\ pc' = "certs" /\ Clean
        /\ kubeconf' = FirstWorking(ControlHosts(conf)) /\ admin' = kubeconf'
        /\ UNCHANGED <<hostVars, clusterVars, failed, conf, sans, history>>
    BY <1>18 DEF ControlDeleted, Goto
  <2>4. /\ KeepsEtcd /\ MembersUp /\ members = EtcdHosts(conf)
        /\ warned = {} /\ swallowed = {} /\ ~failed
        /\ sans = ControlHosts(conf)
    BY <2>3
  <2>5. ASSUME NEW h \in ControlHosts(conf), "api" \in ctr[h]
        PROVE  h \in ControlHosts(saved)
    <3>1. h \in Hosts \ Excused
      BY <2>3, <2>4 DEF Excused
    <3>2. LoopFits(h)
      BY <2>3, <3>1 DEF BoundInv
    <3> QED BY <2>5, <3>1, <3>2 DEF LoopFits, MasterServices
  <2>6. saved # NoConfig
    BY <2>4
  <2> QED BY <2>2, <2>3, <2>4, <2>5, <2>6
<1>19. CASE CertificatesDeployed
  BY <1>19 DEF CertificatesDeployed, Wait, FailIf, Fail, Goto
<1>20. CASE RunEtcd
  BY <1>20, <1>b, <1>c DEF RunEtcd
<1>21. CASE EtcdRunning
  BY <1>21 DEF EtcdRunning, Goto
<1>22. CASE ControlRunning
  BY <1>22 DEF ControlRunning, Wait, FailIf, Fail, Goto
<1>23. CASE SaveClusterState
  <2>1. ~Fail
    BY <1>23, CleanFail DEF SaveClusterState
  <2>2. /\ pc = "save" /\ ApiUp(kubeconf) /\ Clean
        /\ saved' = conf /\ pc' = "worker_etcd"
        /\ warned' \subseteq warned /\ swallowed' \subseteq swallowed
        /\ UNCHANGED <<hostVars, members, kubeconf, failed, conf>>
    BY <1>23, <2>1 DEF SaveClusterState, FailIf, Goto
  <2>3. Serves
    BY <2>2 DEF ApiUp, ApiServes
  <2> QED BY <2>2, <2>3
<1>24. ASSUME NEW h \in Hosts, DeployCertificates(h) PROVE OnTrack'
  BY <1>24 DEF DeployCertificates
<1>25. ASSUME NEW h \in Hosts, DoDeployControlHost(h) PROVE OnTrack'
  <2> DEFINE before == ctr[h] \ IF "worker" \in conf[h] THEN {"nginx"} ELSE {}
             own == "nginx" \notin before \/ h \notin proxied
  <2>1. /\ pc = "control_run" /\ h \in ControlHosts(conf) /\ Clean
        /\ UNCHANGED <<pc, files, clusterVars, kubeconf, conf, admin, sans,
                       history>>
    BY <1>25 DEF DoDeployControlHost, Deploy
  <2>2. /\ \A g \in Hosts : g # h => ctr'[g] = ctr[g]
        /\ ctr[h] \ {"nginx"} \subseteq ctr'[h]
        /\ "worker" \notin conf[h] => ctr[h] \subseteq ctr'[h]
    BY <1>25, DoDeployControlHostFacts DEF OnlyAt
  <2>3. trusted' = IF "api" \in ctr[h] \/ "api" \notin ctr'[h] THEN trusted
                   ELSE IF h \in sans THEN trusted \cup {h}
                        ELSE trusted \ {h}
    BY <1>25 DEF DoDeployControlHost
  <2>4. CASE saved = NoConfig
    <3>1. /\ members = EtcdHosts(conf) /\ members # {}
          /\ admin \in sans /\ kubeconf = admin /\ ~failed
          /\ \A g \in Hosts :
                /\ "nginx" \notin ctr[g]
                /\ "api" \in ctr[g] /\ g \in sans => g \in trusted
      BY <2>1, <2>4
    <3>2. MembersUp
      BY <2>1, <3>1 DEF CompleteInv
    <3>3. EtcdUp
      BY <3>1, <3>2, AllUp
    <3>4. ~failed'
      <4>1. faults' = 0 /\ faults \in Nat
        OBVIOUS
      <4>2. Deploy(h, before, ControlServices)
        BY <1>25, <3>1, <3>3 DEF DoDeployControlHost
      <4>3. failed' = failed \/ faults' = faults + 1
        BY <4>2 DEF Deploy
      <4>4. faults' # faults + 1
        BY <4>1
      <4> QED BY <3>1, <4>3, <4>4
    <3>5. ctr'[h] \subseteq ctr[h] \cup {"sidekick"} \cup MasterServices
      BY <1>25, DoDeployControlHostFacts
    <3>6. \A g \in Hosts : "nginx" \notin ctr'[g]
      BY <2>2, <3>1, <3>5 DEF MasterServices
    <3>7. ASSUME NEW g \in Hosts, "api" \in ctr'[g], g \in sans
          PROVE  g \in trusted'
      BY <2>2, <2>3, <3>1, <3>7
    <3> QED BY <2>1, <2>4, <3>1, <3>4, <3>6, <3>7
  <2>5. CASE saved # NoConfig
    <3>1. /\ KeepsEtcd /\ members = EtcdHosts(conf) /\ MembersUp
          /\ sans = ControlHosts(conf)
      BY <2>1, <2>5
    <3>2. MembersUp'
      BY <2>1, <2>2, <3>1
    <3>3. ASSUME NEW g \in ControlHosts(conf), "api" \in ctr'[g]
          PROVE  g \in trusted' \cup ControlHosts(saved)
      BY <2>1, <2>2, <2>3, <2>5, <3>1, <3>3
    <3>4. ASSUME failed' PROVE \E g \in ControlHosts(conf) : PortTaken(g)'
      <4>1. CASE failed
        <5>1. PICK g \in ControlHosts(conf) : PortTaken(g)
          BY <2>1, <2>5, <4>1
        <5>2. PortTaken(g)'
          BY <2>1, <2>2, <5>1
        <5> QED BY <5>2
      <4>2. CASE ~failed
        <5>1. EtcdUp
          BY <3>1, AllUp
        <5>2. ~(own /\ EtcdUp)
          <6>1. faults' = 0 /\ faults \in Nat
            OBVIOUS
          <6>2. ~Deploy(h, before, ControlServices)
            <7>1. Deploy(h, before, ControlServices) =>
                    failed' = failed \/ faults' = faults + 1
              BY DEF Deploy
            <7>2. faults' # faults + 1
              BY <6>1
            <7>3. failed' # failed
              BY <3>4, <4>2
            <7> QED BY <7>1, <7>2, <7>3
          <6> QED BY <1>25, <6>2 DEF DoDeployControlHost
        <5>3. "worker" \notin conf[h] /\ "nginx" \in ctr[h]
          BY <5>1, <5>2
        <5> QED BY <2>1, <2>2, <5>3
      <4> QED BY <4>1, <4>2
    <3> HIDE DEF PortTaken
    <3> QED BY <2>1, <2>5, <3>1, <3>2, <3>3, <3>4
  <2> QED BY <2>4, <2>5
<1>26. ASSUME NEW h \in Hosts, DoDeployWorkerPlane(h) PROVE OnTrack'
  <2>1. /\ pc \in AfterSave /\ Clean
        /\ UNCHANGED <<pc, trusted, members, saved, kubeconf, conf, history>>
        /\ failed' = failed
    BY <1>26 DEF DoDeployWorkerPlane, Deploy, WorkerStages
  <2>2. /\ \A g \in Hosts : ctr[g] \subseteq ctr'[g]
        /\ Port6443
    BY <1>26, DoDeployWorkerPlaneFacts
       DEF OnlyAt, DoDeployWorkerPlane, Deploy
  <2>3. Serves'
    BY <2>1, <2>2 DEF Port6443
  <2> QED BY <2>1, <2>3
<1>27. CASE WorkerStageDone("worker_etcd", "worker_control")
  BY <1>27 DEF WorkerStageDone, WorkerStages, Wait, FailIf, Fail, Goto
<1>28. CASE WorkerStageDone("worker_control", "worker_worker")
  BY <1>28 DEF WorkerStageDone, WorkerStages, Wait, FailIf, Fail, Goto
<1>29. CASE WorkerStageDone("worker_worker", "sync")
  BY <1>29 DEF WorkerStageDone, Wait, FailIf, Fail, Goto
<1>30. CASE FinishUp
  <2>1. /\ pc = "sync" /\ pc' = "idle" /\ Clean
        /\ UNCHANGED <<hostVars, clusterVars, kubeconf, swallowed, warned>>
    BY <1>30 DEF FinishUp, FailIf, Fail
  <2>2. /\ saved = conf /\ members = EtcdHosts(conf) /\ members # {}
        /\ Serves /\ ~failed /\ warned = {} /\ swallowed = {}
    BY <2>1
  <2>3. MembersUp
    BY <2>1, <2>2 DEF CompleteInv
  <2>4. ~failed'
    BY <1>30, <2>2 DEF FinishUp, FailIf, Fail
  <2>5. saved # NoConfig
    BY <2>2
  <2> QED BY <2>1, <2>2, <2>3, <2>4, <2>5
<1>31. CASE RemovePlaneHost("rm_worker", "worker",
                            RemoveWorkerPlane(conf[Current], TRUE))
  <2>1. ~Fail
    BY <1>31, CleanFail DEF RemovePlaneHost
  <2> DEFINE list == RemoveWorkerPlane(conf[Current], TRUE)
  <2> HIDE DEF list
  <2>2. /\ pc = "rm_worker" /\ pc' = pc /\ Clean
        /\ UNCHANGED <<members, saved, failed, warned, swallowed>>
    <3>1. RemovePlaneHost("rm_worker", "worker", list)
      BY <1>31 DEF list
    <3> QED BY <2>1, <3>1 DEF RemovePlaneHost, FailIf
  <2> QED BY <2>2
<1>32. CASE RemovePlaneHost("rm_control", "controlplane",
                            RemoveControlPlane(conf[Current]))
  <2>1. ~Fail
    BY <1>32, CleanFail DEF RemovePlaneHost
  <2> DEFINE list == RemoveControlPlane(conf[Current])
  <2> HIDE DEF list
  <2>2. /\ pc = "rm_control" /\ pc' = pc /\ Clean
        /\ UNCHANGED <<members, saved, failed, warned, swallowed>>
    <3>1. RemovePlaneHost("rm_control", "controlplane", list)
      BY <1>32 DEF list
    <3> QED BY <2>1, <3>1 DEF RemovePlaneHost, FailIf
  <2> QED BY <2>2
<1>33. CASE RemovePlaneHost("rm_etcd", "etcd",
                            RemoveEtcdPlane(conf[Current], TRUE))
  <2>1. ~Fail
    BY <1>33, CleanFail DEF RemovePlaneHost
  <2> DEFINE list == RemoveEtcdPlane(conf[Current], TRUE)
  <2> HIDE DEF list
  <2>2. /\ pc = "rm_etcd" /\ pc' = pc /\ Clean
        /\ UNCHANGED <<members, saved, failed, warned, swallowed>>
    <3>1. RemovePlaneHost("rm_etcd", "etcd", list)
      BY <1>33 DEF list
    <3> QED BY <2>1, <3>1 DEF RemovePlaneHost, FailIf
  <2> QED BY <2>2
<1>34. CASE RemoveStageDone("rm_worker", "rm_control", ControlHosts(conf))
  BY <1>34 DEF RemoveStageDone, Goto
<1>35. CASE RemoveStageDone("rm_control", "rm_etcd", EtcdHosts(conf))
  BY <1>35 DEF RemoveStageDone, Goto
<1>36. CASE RemoveStageDone("rm_etcd", "rm_clean", HostsOf(conf))
  BY <1>36 DEF RemoveStageDone, Goto
<1>37. CASE CleanUpHost
  BY <1>37, <1>b, <1>c DEF CleanUpHost
<1>38. CASE FinishRemove
  BY <1>38 DEF FinishRemove
<1>39. CASE Abort
  BY <1>39 DEF Abort, FailIf, Fail
<1>40. ASSUME NEW h \in Hosts, KubeletRegisters(h) PROVE OnTrack'
  BY <1>40 DEF KubeletRegisters
<1>41. CASE UNCHANGED vars
  BY <1>41 DEF vars
<1> QED
  BY <1>1, <1>2, <1>3, <1>4, <1>5, <1>6, <1>7, <1>8, <1>9, <1>10, <1>11, <1>12,
     <1>13, <1>14, <1>15, <1>16, <1>17, <1>18, <1>19, <1>20, <1>21, <1>22,
     <1>23, <1>24, <1>25, <1>26, <1>27, <1>28, <1>29, <1>30, <1>31, <1>32,
     <1>33, <1>34, <1>35, <1>36, <1>37, <1>38, <1>39, <1>40, <1>41
     DEF Next, RkeStep, Reconcile, DeployPlanes, ClusterRemove, RemovePlanes

-----------------------------------------------------------------------------
(* The action property.                                                     *)

Kept ==
    \A h \in Hosts :
        (/\ pc \notin {"idle", "state", "auth"}
         /\ saved[h] = conf[h] /\ conf[h] # {} /\ cur # NoConfig
         /\ pc \notin {"rm_worker", "rm_control", "rm_etcd", "rm_clean"})
        => ctr[h] \subseteq ctr'[h] /\ files[h] \subseteq files'[h]

\* No step takes anything from such a host.
LEMMA KeptStep == UpInv /\ [Next]_vars => Kept
<1> SUFFICES ASSUME UpInv, [Next]_vars PROVE Kept
  OBVIOUS
<1> USE DEF LoseTrack,
            UpInv, TypeInv, LoopInv, Kept, Stages, ReconcileStages, EtcdLoop,
            AddLoop, WorkerLoop, ControlLoop, DeployStages, AfterSave,
            RemoveStages, hostVars, clusterVars, procVars, history, HostsOf,
            ControlHosts, EtcdHosts, Plane, GetToDeleteHosts, GetToAddHosts,
            NoConfig
<1>b. todo # {} => Current \in todo /\ FirstHost(todo) \in todo
  BY CurrentIn DEF UpInv, TypeInv
<1>1. ASSUME NEW c \in Configs, StartUp(c) PROVE Kept
  BY <1>1 DEF StartUp
<1>2. CASE StartRemove
  BY <1>2 DEF StartRemove
<1>3. CASE GetClusterState
  BY <1>3 DEF GetClusterState
<1>4. CASE UseFetchedCertificates
  BY <1>4 DEF UseFetchedCertificates, Goto
<1>5. CASE RecoverOrGenerate
  BY <1>5 DEF RecoverOrGenerate, Goto
<1>6. CASE ReconcileEtcdMember
  BY <1>6, <1>b DEF ReconcileEtcdMember, Goto
<1>7. CASE ReconcileEtcdNode
  BY <1>7, <1>b DEF ReconcileEtcdNode, Goto, NodesAfterDelete, DeleteNodeWorks
<1>8. CASE ReconcileEtcdHost
  <2>1. Len(RemoveEtcdPlane(cur[Current], FALSE)) \in Nat
    BY RemoveEtcdPlaneTaken
  <2>2. ReconcileHost(Current, "etcd", RemoveEtcdPlane(cur[Current], FALSE),
                      "etcd_member")
    BY <1>8 DEF ReconcileEtcdHost
  <2>3. Current \in todo /\ Current \in Hosts
    BY <1>8, <1>b DEF ReconcileEtcdHost
  <2>4. \A g \in Hosts : g # Current =>
           ctr'[g] = ctr[g] /\ files'[g] = files[g]
    BY <2>1, <2>2, <2>3, ReconcileHostFacts DEF OnlyAt
  <2> QED BY <1>8, <2>2, <2>3, <2>4 DEF ReconcileHost, FailIf, Fail,
             ReconcileEtcdHost
<1>9. CASE EtcdDeleted
  BY <1>9 DEF EtcdDeleted, Goto
<1>10. CASE AddEtcdMember
  BY <1>10, <1>b DEF AddEtcdMember, Goto, FailIf, Fail
<1>11. CASE ReloadEtcdCluster
  BY <1>11, <1>b DEF ReloadEtcdCluster, Goto, FailIf, Fail, LoopPrefixes,
     ReadyHosts
<1>12. CASE EtcdAdded
  BY <1>12 DEF EtcdAdded, Goto
<1>13. CASE ReconcileWorkerNode
  BY <1>13, <1>b DEF ReconcileWorkerNode, Goto, FailIf, Fail, NodesAfterDelete
<1>14. CASE ReconcileWorkerHost
  <2>1. Len(RemoveWorkerPlane(cur[Current], FALSE)) \in Nat
    BY RemoveWorkerPlaneTaken
  <2>2. ReconcileHost(Current, "worker",
                      RemoveWorkerPlane(cur[Current], FALSE),
                      "worker_node")
    BY <1>14 DEF ReconcileWorkerHost
  <2>3. Current \in todo /\ Current \in Hosts
    BY <1>14, <1>b DEF ReconcileWorkerHost
  <2>4. \A g \in Hosts : g # Current =>
           ctr'[g] = ctr[g] /\ files'[g] = files[g]
    BY <2>1, <2>2, <2>3, ReconcileHostFacts DEF OnlyAt
  <2> QED BY <1>14, <2>2, <2>3, <2>4 DEF ReconcileHost, FailIf, Fail,
             ReconcileWorkerHost
<1>15. CASE WorkersDeleted
  BY <1>15 DEF WorkersDeleted, Goto
<1>16. CASE ReconcileControlNode
  BY <1>16, <1>b DEF ReconcileControlNode, Goto, FailIf, Fail, NodesAfterDelete
<1>17. CASE ReconcileControlHost
  <2>1. Len(RemoveControlPlane(cur[Current])) \in Nat
    BY RemoveControlPlaneTaken
  <2>2. ReconcileHost(Current, "controlplane",
                      RemoveControlPlane(cur[Current]),
                      "control_node")
    BY <1>17 DEF ReconcileControlHost
  <2>3. Current \in todo /\ Current \in Hosts
    BY <1>17, <1>b DEF ReconcileControlHost
  <2>4. \A g \in Hosts : g # Current =>
           ctr'[g] = ctr[g] /\ files'[g] = files[g]
    BY <2>1, <2>2, <2>3, ReconcileHostFacts DEF OnlyAt
  <2> QED BY <1>17, <2>2, <2>3, <2>4 DEF ReconcileHost, FailIf, Fail,
             ReconcileControlHost
<1>18. CASE ControlDeleted
  BY <1>18 DEF ControlDeleted, Goto
<1>19. CASE CertificatesDeployed
  BY <1>19 DEF CertificatesDeployed, Wait, FailIf, Fail, Goto
<1>20. CASE RunEtcd
  BY <1>20, <1>b DEF RunEtcd
<1>21. CASE EtcdRunning
  BY <1>21 DEF EtcdRunning, Goto
<1>22. CASE ControlRunning
  BY <1>22 DEF ControlRunning, Wait, FailIf, Fail, Goto
<1>23. CASE SaveClusterState
  BY <1>23 DEF SaveClusterState, Goto, FailIf, Fail
<1>24. ASSUME NEW h \in Hosts, DeployCertificates(h) PROVE Kept
  BY <1>24 DEF DeployCertificates
<1>25. ASSUME NEW h \in Hosts, DoDeployControlHost(h) PROVE Kept
  <2>1. /\ \A g \in Hosts : g # h => ctr'[g] = ctr[g]
        /\ ctr[h] \ {"nginx"} \subseteq ctr'[h]
        /\ "worker" \notin conf[h] => ctr[h] \subseteq ctr'[h]
    BY <1>25, DoDeployControlHostFacts DEF OnlyAt
  <2>2. "controlplane" \in conf[h] /\ UNCHANGED files
    BY <1>25 DEF DoDeployControlHost
  <2>3. {"controlplane", "worker"} \subseteq saved[h] => "nginx" \notin ctr[h]
    BY DEF ProxyInv
  <2> QED BY <2>1, <2>2, <2>3
<1>26. ASSUME NEW h \in Hosts, DoDeployWorkerPlane(h) PROVE Kept
  <2>1. \A g \in Hosts : ctr[g] \subseteq ctr'[g]
    BY <1>26, DoDeployWorkerPlaneFacts DEF OnlyAt
  <2> QED BY <1>26, <2>1 DEF DoDeployWorkerPlane
<1>27. CASE WorkerStageDone("worker_etcd", "worker_control")
  BY <1>27 DEF WorkerStageDone, WorkerStages, Wait, FailIf, Fail, Goto
<1>28. CASE WorkerStageDone("worker_control", "worker_worker")
  BY <1>28 DEF WorkerStageDone, WorkerStages, Wait, FailIf, Fail, Goto
<1>29. CASE WorkerStageDone("worker_worker", "sync")
  BY <1>29 DEF WorkerStageDone, Wait, FailIf, Fail, Goto
<1>30. CASE FinishUp
  BY <1>30 DEF FinishUp, FailIf, Fail
<1>31. CASE RemovePlaneHost("rm_worker", "worker",
                            RemoveWorkerPlane(conf[Current], TRUE))
  BY <1>31 DEF RemovePlaneHost
<1>32. CASE RemovePlaneHost("rm_control", "controlplane",
                            RemoveControlPlane(conf[Current]))
  BY <1>32 DEF RemovePlaneHost
<1>33. CASE RemovePlaneHost("rm_etcd", "etcd",
                            RemoveEtcdPlane(conf[Current], TRUE))
  BY <1>33 DEF RemovePlaneHost
<1>34. CASE RemoveStageDone("rm_worker", "rm_control", ControlHosts(conf))
  BY <1>34 DEF RemoveStageDone, Goto
<1>35. CASE RemoveStageDone("rm_control", "rm_etcd", EtcdHosts(conf))
  BY <1>35 DEF RemoveStageDone, Goto
<1>36. CASE RemoveStageDone("rm_etcd", "rm_clean", HostsOf(conf))
  BY <1>36 DEF RemoveStageDone, Goto
<1>37. CASE CleanUpHost
  BY <1>37, <1>b DEF CleanUpHost
<1>38. CASE FinishRemove
  BY <1>38 DEF FinishRemove
<1>39. CASE Abort
  BY <1>39 DEF Abort, FailIf, Fail
<1>40. ASSUME NEW h \in Hosts, KubeletRegisters(h) PROVE Kept
  BY <1>40 DEF KubeletRegisters
<1>41. CASE UNCHANGED vars
  BY <1>41 DEF vars
<1> QED
  BY <1>1, <1>2, <1>3, <1>4, <1>5, <1>6, <1>7, <1>8, <1>9, <1>10, <1>11, <1>12,
     <1>13, <1>14, <1>15, <1>16, <1>17, <1>18, <1>19, <1>20, <1>21, <1>22,
     <1>23, <1>24, <1>25, <1>26, <1>27, <1>28, <1>29, <1>30, <1>31, <1>32,
     <1>33, <1>34, <1>35, <1>36, <1>37, <1>38, <1>39, <1>40, <1>41
     DEF Next, RkeStep, Reconcile, DeployPlanes, ClusterRemove, RemovePlanes

\* What ReconfigureSucceeds says of a step.
Reason ==
    \/ saved # NoConfig /\ EtcdHosts(saved) \cap EtcdHosts(conf) = {}
    \/ \E h \in ControlHosts(conf) : PortTaken(h)
    \/ ~(ControlHosts(saved) \subseteq trusted)
    \/ saved = NoConfig /\ kubeconf \notin ControlHosts(conf)
Reconfigured ==
    (/\ faults' = 0 /\ ~lost
     /\ result # "err" /\ result' = "err") => Reason

\* A step that ends a run without errors early has one of the reasons.
LEMMA ReconfigureStep == UpInv /\ ReachInv /\ [Next]_vars => Reconfigured
<1> SUFFICES ASSUME UpInv, ReachInv, [Next]_vars, faults' = 0, ~lost,
                    result # "err", result' = "err"
             PROVE  Reason
  BY DEF Reconfigured
<1> USE DEF LoseTrack,
            Reason, UpInv, TypeInv, LoopInv, StoreInv, ReachInv, Clean,
            OnTrack,
            QuietInv, SettledInv, MembershipInv, AccessInv, LeavingMembers,
            JoiningMembers, KeepsEtcd, MembersUp, Serves, Stages,
            ReconcileStages, EtcdLoop, AddLoop, WorkerLoop, ControlLoop,
            DeployStages, AfterSave, RemoveStages, hostVars, clusterVars,
            procVars, history, HostsOf, EtcdHosts, ControlHosts, Plane,
            ValidateCluster, NoConfig
<1>a. faults = 0 => Clean
  OBVIOUS
<1>b. todo # {} => Current \in todo /\ FirstHost(todo) \in todo
  BY CurrentIn DEF UpInv, TypeInv
<1>c. pc \notin {"control_node", "control_host", "rm_clean"} =>
        Current = FirstHost(todo)
  BY DEF Current
<1>1. ASSUME NEW c \in Configs, StartUp(c) PROVE Reason
  BY <1>1 DEF StartUp
<1>2. CASE StartRemove
  BY <1>2 DEF StartRemove
<1>3. CASE GetClusterState
  BY <1>3 DEF GetClusterState
<1>4. CASE UseFetchedCertificates
  BY <1>4 DEF UseFetchedCertificates, Goto
<1>5. CASE RecoverOrGenerate
  BY <1>5 DEF RecoverOrGenerate, Goto
<1>6. CASE ReconcileEtcdMember
  BY <1>6 DEF ReconcileEtcdMember, Goto
<1>7. CASE ReconcileEtcdNode
  BY <1>7 DEF ReconcileEtcdNode, Goto, NodesAfterDelete, DeleteNodeWorks
<1>8. CASE ReconcileEtcdHost
  <2>1. Len(RemoveEtcdPlane(cur[Current], FALSE)) \in Nat
    BY RemoveEtcdPlaneTaken
  <2>2. ReconcileHost(Current, "etcd", RemoveEtcdPlane(cur[Current], FALSE),
                      "etcd_member")
    BY <1>8 DEF ReconcileEtcdHost
  <2>3. Current \in todo /\ Current \in Hosts
    BY <1>8, <1>b DEF ReconcileEtcdHost
  <2>4. IF Fail THEN faults' = faults + 1 ELSE result' = result
    BY <2>1, <2>2, <2>3, ReconcileHostFacts
  <2> QED BY <2>4
<1>9. CASE EtcdDeleted
  BY <1>9 DEF EtcdDeleted, Goto
<1>10. CASE AddEtcdMember
  <2>1. pc = "etcd_add" /\ todo # {} /\ Clean /\ ~CanAddMember(Current)
    BY <1>10 DEF AddEtcdMember, Goto, FailIf, Fail
  <2>2. CASE KeepsEtcd
    <3>1. /\ members = EtcdHosts(conf) \ todo /\ MembersUp
          /\ todo \cap EtcdHosts(saved) = {}
      BY <2>1, <2>2
    <3>2. PICK e \in members : "etcd" \in conf[e]
      BY <2>2, <3>1
    <3>3. EtcdUp /\ Alive = members
      BY <3>1, <3>2, AllUp
    <3>4. Current \notin members
      BY <2>1, <3>1, <1>b
    <3> QED BY <2>1, <3>2, <3>3, <3>4 DEF CanAddMember
  <2>3. CASE ~KeepsEtcd
    <3>1. saved # NoConfig
      BY <2>1
    <3> QED BY <2>3, <3>1
  <2> QED BY <2>2, <2>3
<1>11. CASE ReloadEtcdCluster
  <2>1. /\ pc = "etcd_reload" /\ todo # {} /\ Clean
        /\ members' = members
        /\ ctr' = [h \in Hosts |-> IF h \in ReadyHosts
                                   THEN ctr[h] \cup {"etcd"} ELSE ctr[h]]
        /\ files' = [h \in Hosts |-> IF h \in ReadyHosts
                                     THEN files[h] \cup {"etcd"} ELSE files[h]]
        /\ ~EtcdUp'
    BY <1>11 DEF ReloadEtcdCluster, Goto, FailIf
  <2>2. members = JoiningMembers
    BY <2>1
  <2>3. members = ReadyHosts /\ members # {} /\ members \in SUBSET Hosts
    BY <2>1, <2>2, <1>b, <1>c DEF ReadyHosts
  <2>4. Alive' = members
    BY <2>1, <2>3 DEF Alive
  <2>5. EtcdUp'
    BY <2>1, <2>3, <2>4, Majority DEF EtcdUp
  <2> QED BY <2>1, <2>5
<1>12. CASE EtcdAdded
  BY <1>12 DEF EtcdAdded, Goto
<1>13. CASE ReconcileWorkerNode
  <2>1. pc = "worker_node" /\ todo # {} /\ Clean /\ ~ApiUp(kubeconf)
    BY <1>13 DEF ReconcileWorkerNode, DeleteNodeWorks, Goto, FailIf
  <2>2. Serves /\ MembersUp /\ members = EtcdHosts(conf) /\ members # {}
    BY <2>1
  <2>3. EtcdUp
    BY <2>2, AllUp
  <2> QED BY <2>1, <2>2, <2>3, ConfigsAssumption DEF ApiUp, ApiServes
<1>14. CASE ReconcileWorkerHost
  <2>1. Len(RemoveWorkerPlane(cur[Current], FALSE)) \in Nat
    BY RemoveWorkerPlaneTaken
  <2>2. ReconcileHost(Current, "worker", RemoveWorkerPlane(cur[Current], FALSE),
                      "worker_node")
    BY <1>14 DEF ReconcileWorkerHost
  <2>3. Current \in todo /\ Current \in Hosts
    BY <1>14, <1>b DEF ReconcileWorkerHost
  <2>4. IF Fail THEN faults' = faults + 1 ELSE result' = result
    BY <2>1, <2>2, <2>3, ReconcileHostFacts
  <2> QED BY <2>4
<1>15. CASE WorkersDeleted
  BY <1>15 DEF WorkersDeleted, Goto
<1>16. CASE ReconcileControlNode
  <2>1. pc = "control_node" /\ todo # {} /\ Clean /\ ~ApiUp(kubeconf)
    BY <1>16 DEF ReconcileControlNode, DeleteNodeWorks, Goto, FailIf
  <2>2. Serves /\ MembersUp /\ members = EtcdHosts(conf) /\ members # {}
    BY <2>1
  <2>3. EtcdUp
    BY <2>2, AllUp
  <2> QED BY <2>1, <2>2, <2>3, ConfigsAssumption DEF ApiUp, ApiServes
<1>17. CASE ReconcileControlHost
  <2>1. Len(RemoveControlPlane(cur[Current])) \in Nat
    BY RemoveControlPlaneTaken
  <2>2. ReconcileHost(Current, "controlplane", RemoveControlPlane(cur[Current]),
                      "control_node")
    BY <1>17 DEF ReconcileControlHost
  <2>3. Current \in todo /\ Current \in Hosts
    BY <1>17, <1>b DEF ReconcileControlHost
  <2>4. IF Fail THEN faults' = faults + 1 ELSE result' = result
    BY <2>1, <2>2, <2>3, ReconcileHostFacts
  <2> QED BY <2>4
<1>18. CASE ControlDeleted
  BY <1>18 DEF ControlDeleted, Goto
<1>19. CASE CertificatesDeployed
  BY <1>19 DEF CertificatesDeployed, Wait, FailIf, Fail, Goto
<1>20. CASE RunEtcd
  BY <1>20 DEF RunEtcd
<1>21. CASE EtcdRunning
  BY <1>21 DEF EtcdRunning, Goto
<1>22. CASE ControlRunning
  <2>1. pc = "control_run" /\ Clean /\ failed
    BY <1>22 DEF ControlRunning, Wait, FailIf, Goto
  <2> QED BY <2>1
<1>23. CASE SaveClusterState
  <2>1. pc = "save" /\ Clean /\ ~ApiUp(kubeconf)
    BY <1>23 DEF SaveClusterState, FailIf, Goto
  <2>2. CASE saved # NoConfig
    <3>1. /\ members = EtcdHosts(conf) /\ members # {} /\ MembersUp
          /\ kubeconf \in Hosts /\ "controlplane" \in conf[kubeconf]
      BY <2>1, <2>2
    <3>2. EtcdUp
      BY <3>1, AllUp
    <3>3. "api" \in ctr[kubeconf]
      BY <2>1, <3>1 DEF CompleteInv, Deployed, HasMaster, MasterServices
    <3>4. kubeconf \in proxied \/ kubeconf \notin trusted
      BY <2>1, <3>1, <3>2, <3>3, ConfigsAssumption DEF ApiUp, ApiServes
    <3>5. CASE kubeconf \notin trusted
      <4>1. kubeconf \in ControlHosts(saved)
        BY <2>1, <2>2, <3>1, <3>3, <3>5
      <4> QED BY <3>5, <4>1
    <3>6. CASE kubeconf \in proxied
      <4>1. "nginx" \in ctr[kubeconf] /\ "worker" \notin conf[kubeconf]
        BY <2>1, <3>1, <3>6 DEF ProxyInv
      <4>2. PortTaken(kubeconf)
        BY <3>1, <4>1 DEF PortTaken
      <4> QED BY <3>1, <4>2
    <3> QED BY <3>4, <3>5, <3>6
  <2>3. CASE saved = NoConfig /\ kubeconf \in ControlHosts(conf)
    <3>1. /\ members = EtcdHosts(conf) /\ members # {}
          /\ kubeconf \in Hosts /\ kubeconf \in sans
          /\ "nginx" \notin ctr[kubeconf]
          /\ "api" \in ctr[kubeconf] => kubeconf \in trusted
      BY <2>1, <2>3
    <3>2. MembersUp
      BY <2>1, <3>1 DEF CompleteInv
    <3>3. EtcdUp
      BY <3>1, <3>2, AllUp
    <3>4. "api" \in ctr[kubeconf] /\ kubeconf \notin proxied
      BY <2>1, <2>3, <3>1
         DEF CompleteInv, Deployed, HasMaster, MasterServices, ProxyInv
    <3> QED BY <2>1, <3>1, <3>3, <3>4, ConfigsAssumption DEF ApiUp, ApiServes
  <2> QED BY <2>2, <2>3
<1>24. ASSUME NEW h \in Hosts, DeployCertificates(h) PROVE Reason
  BY <1>24 DEF DeployCertificates
<1>25. ASSUME NEW h \in Hosts, DoDeployControlHost(h) PROVE Reason
  BY <1>25 DEF DoDeployControlHost, Deploy
<1>26. ASSUME NEW h \in Hosts, DoDeployWorkerPlane(h) PROVE Reason
  BY <1>26 DEF DoDeployWorkerPlane, Deploy
<1>27. CASE WorkerStageDone("worker_etcd", "worker_control")
  BY <1>27 DEF WorkerStageDone, WorkerStages, Wait, FailIf, Fail, Goto
<1>28. CASE WorkerStageDone("worker_control", "worker_worker")
  BY <1>28 DEF WorkerStageDone, WorkerStages, Wait, FailIf, Fail, Goto
<1>29. CASE WorkerStageDone("worker_worker", "sync")
  BY <1>29 DEF WorkerStageDone, Wait, FailIf, Fail, Goto
<1>30. CASE FinishUp
  <2>1. pc = "sync" /\ Clean /\ ~ApiUp(kubeconf)
    BY <1>30 DEF FinishUp, FailIf
  <2>2. Serves /\ members = EtcdHosts(conf) /\ members # {}
    BY <2>1
  <2>3. MembersUp
    BY <2>1, <2>2 DEF CompleteInv
  <2>4. EtcdUp
    BY <2>2, <2>3, AllUp
  <2> QED BY <2>1, <2>2, <2>4, ConfigsAssumption DEF ApiUp, ApiServes
<1>31. CASE RemovePlaneHost("rm_worker", "worker",
                            RemoveWorkerPlane(conf[Current], TRUE))
  <2> DEFINE list == RemoveWorkerPlane(conf[Current], TRUE)
  <2>1. RemovePlaneHost("rm_worker", "worker", list)
    BY <1>31
  <2> HIDE DEF list
  <2> QED BY <2>1 DEF RemovePlaneHost, FailIf
<1>32. CASE RemovePlaneHost("rm_control", "controlplane",
                            RemoveControlPlane(conf[Current]))
  <2> DEFINE list == RemoveControlPlane(conf[Current])
  <2>1. RemovePlaneHost("rm_control", "controlplane", list)
    BY <1>32
  <2> HIDE DEF list
  <2> QED BY <2>1 DEF RemovePlaneHost, FailIf
<1>33. CASE RemovePlaneHost("rm_etcd", "etcd",
                            RemoveEtcdPlane(conf[Current], TRUE))
  <2> DEFINE list == RemoveEtcdPlane(conf[Current], TRUE)
  <2>1. RemovePlaneHost("rm_etcd", "etcd", list)
    BY <1>33
  <2> HIDE DEF list
  <2> QED BY <2>1 DEF RemovePlaneHost, FailIf
<1>34. CASE RemoveStageDone("rm_worker", "rm_control", ControlHosts(conf))
  BY <1>34 DEF RemoveStageDone, Goto
<1>35. CASE RemoveStageDone("rm_control", "rm_etcd", EtcdHosts(conf))
  BY <1>35 DEF RemoveStageDone, Goto
<1>36. CASE RemoveStageDone("rm_etcd", "rm_clean", HostsOf(conf))
  BY <1>36 DEF RemoveStageDone, Goto
<1>37. CASE CleanUpHost
  BY <1>37 DEF CleanUpHost
<1>38. CASE FinishRemove
  BY <1>38 DEF FinishRemove
<1>39. CASE Abort
  BY <1>39 DEF Abort, FailIf, Fail
<1>40. ASSUME NEW h \in Hosts, KubeletRegisters(h) PROVE Reason
  BY <1>40 DEF KubeletRegisters
<1>41. CASE UNCHANGED vars
  BY <1>41 DEF vars
<1> QED
  BY <1>1, <1>2, <1>3, <1>4, <1>5, <1>6, <1>7, <1>8, <1>9, <1>10, <1>11, <1>12,
     <1>13, <1>14, <1>15, <1>16, <1>17, <1>18, <1>19, <1>20, <1>21, <1>22,
     <1>23, <1>24, <1>25, <1>26, <1>27, <1>28, <1>29, <1>30, <1>31, <1>32,
     <1>33, <1>34, <1>35, <1>36, <1>37, <1>38, <1>39, <1>40, <1>41
     DEF Next, RkeStep, Reconcile, DeployPlanes, ClusterRemove, RemovePlanes

-----------------------------------------------------------------------------
(* Theorems.                                                                *)

\* Before the first run there is nothing anywhere.
LEMMA UpInvInit == Init => UpInv
<1> SUFFICES ASSUME Init PROVE UpInv
  OBVIOUS
<1> USE DEF Init, NoConfig
<1>1. TypeInv
  BY DEF TypeInv, Stages
<1>2. LoopInv
  BY DEF LoopInv, ReconcileStages, EtcdLoop, AddLoop, WorkerLoop, ControlLoop,
         AfterSave, WorkerStages
<1>3. BoundInv
  BY DEF BoundInv, Fits, ReconcileStages, EtcdLoop, AddLoop, WorkerLoop,
         ControlLoop, DeployStages, RemoveStages
<1>4. ProxyInv /\ NodeInv /\ ServesInv
  BY DEF ProxyInv, NodeInv, ServesInv
<1>5. CompleteInv
  BY DEF CompleteInv, Deployed, AfterSave
<1> QED BY <1>1, <1>2, <1>3, <1>4, <1>5 DEF UpInv

\* ... and every step, of rke or of a kubelet, preserves it.
LEMMA UpInvStep == UpInv /\ [Next]_vars => UpInv'
  BY TypeStep, LoopStep, BoundStep, ProxyStep, CompleteStep, NodeStep,
     ServesStep DEF UpInv

\* The same for a run without errors.
LEMMA ReachInvInit == Init => ReachInv
<1> SUFFICES ASSUME Init PROVE ReachInv
  OBVIOUS
<1> USE DEF Init, NoConfig
<1>1. StoreInv
  BY DEF StoreInv
<1>2. OnTrack
  BY DEF OnTrack, QuietInv, SettledInv, MembershipInv, AccessInv, EtcdLoop,
         AddLoop, WorkerLoop, ControlLoop, ReconcileStages, DeployStages,
         AfterSave
<1> QED BY <1>1, <1>2 DEF ReachInv

\* ... step by step.
LEMMA ReachInvStep == UpInv /\ ReachInv /\ [Next]_vars => ReachInv'
  BY StoreStep, ReachStep DEF ReachInv

\* The invariant of every run of rke.
THEOREM UpInvHolds == Spec => []UpInv
  BY UpInvInit, UpInvStep, PTL DEF Spec

\* No host with services is forgotten: for any machines and configurations,
\* and whatever fails, a host on which RKE's services run is in the saved
\* state, or in the configuration of the run in progress, or excused.
THEOREM HostsTrackedHolds == Spec => []HostsTracked
<1>1. UpInv => HostsTracked
  <2> SUFFICES ASSUME UpInv, NEW h \in Hosts \ Excused, ctr[h] # {},
                      saved[h] = {}
               PROVE  pc # "idle" /\ conf[h] # {}
    BY DEF HostsTracked
  <2> USE DEF UpInv
  <2>1. ctr[h] \subseteq Services /\ pc \in Stages
    BY DEF TypeInv
  <2>2. \/ "etcd" \in ctr[h] \/ MasterServices \cap ctr[h] # {}
        \/ NodeServices \cap ctr[h] # {} \/ "nginx" \in ctr[h]
    BY <2>1 DEF Services, MasterServices, NodeServices
  <2>3. ~Fits(h, saved[h])
    BY <2>2 DEF Fits
  <2>4. pc \in ReconcileStages \cup DeployStages \cup RemoveStages
    BY <2>1, <2>3 DEF BoundInv, Stages
  <2>5. LoopFits(h) \/ DeployFits(h) \/ RemoveFits(h)
    BY <2>4 DEF BoundInv
  <2>6. conf[h] # {}
    BY <2>2, <2>5 DEF LoopFits, DeployFits, RemoveFits, Fits
  <2>7. pc # "idle"
    BY <2>4 DEF ReconcileStages, EtcdLoop, AddLoop, WorkerLoop, ControlLoop,
                DeployStages, RemoveStages
  <2> QED BY <2>6, <2>7
<1> QED BY <1>1, UpInvHolds, PTL

\* A successful "rke remove" leaves no service on any host that is not
\* excused, and no directory on the configured ones.
THEOREM RemoveCompleteHolds == Spec => []RemoveComplete
<1>1. UpInv => RemoveComplete
  BY DEF UpInv, BoundInv, CompleteInv, RemoveComplete
<1> QED BY <1>1, UpInvHolds, PTL

\* After a successful "rke up" every registered kubelet of a configured host
\* has its Node, but for the exceptions the property names.
THEOREM NodesRegisteredHolds == Spec => []NodesRegistered
<1>1. UpInv => NodesRegistered
  BY DEF UpInv, NodeInv, LoopInv, NodesRegistered, HostsOf
<1> QED BY <1>1, UpInvHolds, PTL

\* A successful "rke up" leaves every configured host complete and no stray
\* service, and every control host's API server has its port, but for the
\* exceptions the property names.
THEOREM HostsAsConfiguredHolds == Spec => []HostsAsConfigured
<1>1. UpInv => HostsAsConfigured
  <2> SUFFICES ASSUME UpInv, result = "up" PROVE
          /\ PlanesComplete
          /\ NoStrayServices
          /\ \A h \in ControlHosts(conf) \ Excused :
                ApiServes(h) \/ PortTaken(h)
    BY DEF HostsAsConfigured
  <2> USE DEF UpInv
  <2>1. saved = conf /\ pc = "idle"
    BY DEF LoopInv
  <2>2. ASSUME NEW h \in Hosts \ Excused PROVE Fits(h, conf[h])
    BY <2>1 DEF BoundInv
  <2>3. PlanesComplete
    <3>1. ASSUME NEW h \in HostsOf(conf)
          PROVE  /\ Required(conf[h]) \subseteq ctr[h]
                 /\ "ssl" \in files[h]
                 /\ "etcd" \in conf[h] => "etcd" \in files[h]
      <4>1. /\ h \in Hosts /\ conf[h] # {}
        BY DEF HostsOf
      <4>2. /\ "ssl" \in files[h]
            /\ "etcd" \in conf[h] => "etcd" \in ctr[h] /\ "etcd" \in files[h]
            /\ "controlplane" \in conf[h] => HasMaster(h)
            /\ HasNode(h)
        BY <4>1 DEF CompleteInv
      <4> QED BY <4>2
             DEF Required, HasMaster, HasNode, MasterServices, NodeServices
    <3> QED BY <3>1 DEF PlanesComplete
  <2>4. NoStrayServices
    <3>1. ASSUME NEW h \in Hosts \ Excused, conf[h] = {} PROVE ctr[h] = {}
      BY <2>2, <3>1 DEF Fits, TypeInv, Services, MasterServices, NodeServices
    <3>2. ASSUME NEW h \in Hosts \ Excused
          PROVE  /\ "etcd" \in ctr[h] => "etcd" \in conf[h]
                 /\ ctr[h] \cap {"api", "controller", "scheduler"} # {}
                       => "controlplane" \in conf[h]
      BY <2>2 DEF Fits, MasterServices
    <3> QED BY <3>1, <3>2 DEF NoStrayServices
  <2>5. ASSUME NEW h \in ControlHosts(conf) \ Excused
        PROVE  ApiServes(h) \/ PortTaken(h)
    <3>1. h \in Hosts /\ "controlplane" \in conf[h]
      BY DEF ControlHosts, Plane
    <3>2. "api" \in ctr[h] /\ EtcdUp
      BY <3>1 DEF CompleteInv, HasMaster, MasterServices, ServesInv
    <3>3. CASE h \in proxied
      <4>1. "nginx" \in ctr[h] /\ "worker" \notin conf[h]
        BY <2>2, <3>1, <3>3 DEF ProxyInv, Fits
      <4> QED BY <3>1, <4>1 DEF PortTaken
    <3> QED BY <3>2, <3>3 DEF ApiServes
  <2> QED BY <2>3, <2>4, <2>5
<1> QED BY <1>1, UpInvHolds, PTL

\* While "rke up" reconciles and deploys, no step of it takes a service, the
\* certificates or the data from a host whose roles do not change.
THEOREM UnchangedHostsKeptHolds == Spec => UnchangedHostsKept
<1>1. UpInv /\ [Next]_vars => [Kept]_vars
  BY KeptStep
<1> QED BY <1>1, UpInvHolds, PTL DEF Spec, UnchangedHostsKept, Kept

\* Without errors every "rke up" goes through that keeps one etcd host, as long
\* as rke has known all hosts, but for the exceptions the property names.
THEOREM ReconfigureSucceedsHolds == Spec => ReconfigureSucceeds
<1>1. Spec => []ReachInv
  BY ReachInvInit, ReachInvStep, UpInvHolds, PTL DEF Spec
<1>2. UpInv /\ ReachInv /\ [Next]_vars => [Reconfigured]_vars
  BY ReconfigureStep
<1> QED BY <1>1, <1>2, UpInvHolds, PTL
        DEF Spec, ReconfigureSucceeds, Reconfigured, Reason
=============================================================================
