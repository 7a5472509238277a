----------------------------- MODULE EtcdCluster -----------------------------
(***************************************************************************)
(* How "rke up" forms, grows and shrinks the etcd cluster: reconcileEtcd   *)
(* (cluster/reconcile.go), and RunEtcdPlane, AddEtcdMember,                *)
(* RemoveEtcdMember and ReloadEtcdCluster (services/etcd.go).              *)
(*                                                                         *)
(* Two views of the same cluster can drift apart: the membership etcd      *)
(* keeps, changed through its members API, and the --initial-cluster flags *)
(* of the containers, set from cluster.yml.  A member without data follows *)
(* its flags: "new" bootstraps the cluster named by the initial set,       *)
(* "existing" joins only if that set is the membership its peers report.   *)
(* The flags are part of the container's Cmd, so a changed flag rolls the  *)
(* container.                                                              *)
(*                                                                         *)
(* A cluster is identified by the set of hosts that bootstrapped it, as    *)
(* etcd derives cluster and member ids from it; a member added later gets  *)
(* a fresh id.  The etcd servers and the API server in front of them are   *)
(* external, and an etcd container here is only there, started or stopped. *)
(* Certificates are the subject of Certificates.                           *)
(***************************************************************************)
EXTENDS Naturals, FiniteSets

CONSTANTS
    Hosts,      \* the machines
    HostOrder,  \* HostOrder[h]: where cluster.yml lists h
    Configs,    \* the sets of etcd hosts the operator may ask for
    MaxRuns,    \* bound on the number of "rke up"
    MaxFaults   \* bound on the number of errors and crashes

ASSUME EtcdAssumption ==
    /\ IsFiniteSet(Hosts) /\ HostOrder \in [Hosts -> Nat]
    /\ Configs \subseteq (SUBSET Hosts) \ {{}}
    /\ MaxRuns \in Nat /\ MaxFaults \in Nat

VARIABLES
    \* the hosts
    ctr,        \* ctr[h]: the etcd container, or NoContainer
    parked,     \* hosts with an old-etcd that an interrupted update left
    data,       \* data[h]: cluster and member id in /var/lib/etcd, or NoData
    up,         \* hosts whose etcd serves as a member
    \* the etcd clusters, and what the API server stores in them
    memb,       \* memb[c]: the members of cluster c
    announced,  \* announced[c]: members that have published their name
    saved,      \* saved[c]: the configuration stored in c, or {}
    ids,        \* ids given to added members so far
    endpoints,  \* --etcd-servers of the API servers, {} if there are none
    \* the rke process
    pc,         \* stage it is in
    conf,       \* etcd hosts in cluster.yml
    cur,        \* etcd hosts in the fetched state, {} if there is none
    todo,       \* hosts left to delete or to add
    list,       \* hosts left in the loop over DoRunContainer
    existing,   \* hosts with ExistingEtcdCluster
    \* history
    runs, faults,
    clean,      \* no error or crash in this run
    result,     \* how the last run ended
    astray,     \* a run went on with a view of etcd that etcd does not share
    hasty       \* a run began before etcd had come up from the one before

hostVars == <<ctr, parked, data, up>>
etcdVars == <<memb, announced, saved, ids>>
procVars == <<conf, cur, todo, list, existing>>
vars == <<hostVars, etcdVars, endpoints, pc, procVars, runs, faults, clean,
          result, astray, hasty>>

NoContainer == [started |-> FALSE, init |-> {}, state |-> "none"]
NoData == [cluster |-> {}, id |-> 0]

\* The host of S that cluster.yml lists first.
First(S) == CHOOSE h \in S : \A g \in S : HostOrder[h] <= HostOrder[g]

Member(h, i) == [host |-> h, id |-> i]
Founders(c) == {Member(h, 0) : h \in c}
HostsOf(M) == {m.host : m \in M}

Init ==
    /\ ctr = [h \in Hosts |-> NoContainer]
    /\ parked = {}
    /\ data = [h \in Hosts |-> NoData]
    /\ up = {}
    /\ memb = [c \in Configs |-> {}]
    /\ announced = [c \in Configs |-> {}]
    /\ saved = [c \in Configs |-> {}]
    /\ ids = 0
    /\ endpoints = {}
    /\ pc = "idle"
    /\ conf = {} /\ cur = {} /\ todo = {} /\ list = {} /\ existing = {}
    /\ runs = 0 /\ faults = 0 /\ clean = TRUE /\ result = "none"
    /\ astray = FALSE /\ hasty = FALSE

-----------------------------------------------------------------------------
(* External: etcd.                                                          *)

MemberOn(h) == Member(h, data[h].id)
IsMember(h) == data[h] # NoData /\ MemberOn(h) \in memb[data[h].cluster]

\* The members of c that serve; with a majority of them c takes requests.
Serving(c) == {h \in up : data[h].cluster = c}
Quorum(c) == 2 * Cardinality(Serving(c)) > Cardinality(memb[c])

\* etcd on h answers clients, and reports itself healthy.
Answers(h) == h \in up /\ Quorum(data[h].cluster)

\* A fresh "new" member refuses if a peer knows that it has served before.
MayBootstrap(h) ==
    /\ ctr[h].state = "new"
    /\ \A p \in (up \cap ctr[h].init) \ {h} :
          Member(h, 0) \notin announced[data[p].cluster]

\* A fresh "existing" member needs a peer that knows just its initial set.
MayJoin(h, p) ==
    /\ ctr[h].state = "existing"
    /\ p \in (up \cap ctr[h].init) \ {h}
    /\ HostsOf(memb[data[p].cluster]) = ctr[h].init

\* What a member started on h makes of its flags and its data directory.
BootData(h) ==
    IF data[h] # NoData THEN {data[h]}
    ELSE (IF MayBootstrap(h) THEN {[cluster |-> ctr[h].init, id |-> 0]}
          ELSE {})
         \cup
         {[cluster |-> data[p].cluster,
           id |-> (CHOOSE m \in memb[data[p].cluster] : m.host = h).id]
             : p \in {q \in Hosts : MayJoin(h, q)}}

\* The container is started and its etcd can come to serve.
CanBoot(h) ==
    /\ ctr[h].started /\ h \notin up
    /\ data[h] # NoData => IsMember(h)
    /\ BootData(h) # {}

\* No member is about to come up: what a health check with its retries waits
\* for is there or will not come.
Settled == \A h \in Hosts : ~CanBoot(h)

Boot(h) ==
    /\ CanBoot(h)
    /\ \E d \in BootData(h) :
          LET c == d.cluster
              M == IF memb[c] = {} THEN Founders(c) ELSE memb[c]
          IN  /\ data' = [data EXCEPT ![h] = d]
              /\ memb' = [memb EXCEPT ![c] = M]
              /\ up' = IF Member(h, d.id) \in M THEN up \cup {h} ELSE up
              /\ announced' =
                    [announced EXCEPT ![c] =
                        IF 2 * Cardinality(Serving(c)') > Cardinality(M)
                        THEN @ \cup {Member(x, data'[x].id) :
                                        x \in Serving(c)'}
                        ELSE @]
    /\ UNCHANGED <<ctr, parked, saved, ids, endpoints, pc, procVars, runs,
                   faults, clean, result, astray, hasty>>

-----------------------------------------------------------------------------
(* Control flow.                                                            *)

Goto(stage) == pc' = stage /\ UNCHANGED <<faults, clean, result>>

\* One error more, within the bound.
Fault == faults < MaxFaults /\ faults' = faults + 1 /\ clean' = FALSE

\* The run ends with an error.
Fail ==
    /\ pc' = "idle" /\ result' = "err"
    /\ todo' = {} /\ list' = {}
    /\ UNCHANGED <<conf, cur, existing, runs, astray, hasty>>

\* rke is killed, or a call that changes nothing fails.
Abort ==
    /\ pc # "idle"
    /\ Fault /\ Fail
    /\ UNCHANGED <<hostVars, etcdVars, endpoints>>

\* The operator, or a program, runs rke again: once etcd has had the time to
\* come up, or at once.
StartUp(c) ==
    /\ pc = "idle" /\ runs < MaxRuns
    /\ hasty' = (hasty \/ ~Settled)
    /\ pc' = "state"
    /\ runs' = runs + 1
    /\ conf' = c
    /\ existing' = {}
    /\ clean' = TRUE /\ result' = "none"
    /\ UNCHANGED <<hostVars, etcdVars, endpoints, cur, todo, list, faults,
                   astray>>

\* The fetched state, or none, is what is on the hosts.
Shared(view) ==
    /\ view = UNION {HostsOf(memb[c]) : c \in Configs}
    /\ view = {} => \A h \in Hosts : ctr[h] = NoContainer

\* GetClusterState, through the API server of the last run that deployed one.
\* Without an answer in time the cluster counts as new, and ReconcileCluster
\* returns at once.
GetClusterState ==
    /\ pc = "state"
    /\ \/ /\ \E h \in endpoints : Answers(h) /\ cur' = saved[data[h].cluster]
          /\ UNCHANGED <<faults, clean>>
       \/ /\ \A h \in endpoints : ~Answers(h)
          /\ Settled
          /\ cur' = {}
          /\ UNCHANGED <<faults, clean>>
       \/ /\ endpoints # {} /\ Fault
          /\ cur' = {}
    /\ astray' = (astray \/ ~Shared(cur'))
    /\ IF cur' = {}
       THEN pc' = "run" /\ list' = conf /\ UNCHANGED todo
       ELSE /\ pc' = "delete"
            /\ todo' = cur' \ conf
            /\ UNCHANGED list
    /\ UNCHANGED <<hostVars, etcdVars, endpoints, conf, existing, runs, result,
                   hasty>>

-----------------------------------------------------------------------------
(* reconcileEtcd: hosts to delete.                                          *)

\* The member RemoveEtcdMember finds by the name of h in e's list.  A member
\* added and never started has no name.
Named(e, h) ==
    {m \in memb[data[e].cluster] :
        m.host = h /\ (m.id = 0 \/ m \in announced[data[e].cluster])}

\* Mutant of RemoveEtcdMember: the host is taken down and stays a member.
RemoveEtcdMemberSkipped ==
    /\ pc = "delete" /\ todo # {}
    /\ Goto("delete_node")
    /\ UNCHANGED <<hostVars, etcdVars, endpoints, procVars, runs, astray,
                   hasty>>

\* RemoveEtcdMember; a host whose member cannot be removed is passed over.  A
\* removal whose answer is lost is repeated through the next host, with the id
\* found before, and etcd's client takes "already removed" for success: the
\* host is passed over only if no other configured host answers any more.
RemoveEtcdMember ==
    /\ pc = "delete" /\ todo # {}
    /\ LET h == First(todo)
           through == {e \in conf : Answers(e) /\ Named(e, h) # {}}
       IN
       \/ /\ through # {}
          /\ UNCHANGED <<data, astray>>
          /\ LET c == data[First(through)].cluster IN
             /\ memb' = [memb EXCEPT ![c] = @ \ Named(First(through), h)]
             /\ up' = IF data[h].cluster = c THEN up \ {h} ELSE up
          /\ \/ Goto("delete_node") /\ UNCHANGED todo
             \/ /\ \A e \in conf \ {First(through)} : ~Answers(e)'
                /\ Fault
                /\ todo' = todo \ {First(todo)}
                /\ UNCHANGED <<pc, result>>
       \/ /\ IF through = {} THEN Settled /\ UNCHANGED <<faults, clean>>
             ELSE Fault
          /\ todo' = todo \ {First(todo)}
          /\ astray' = TRUE
          /\ UNCHANGED <<data, memb, up, pc, result>>
    /\ UNCHANGED <<ctr, parked, announced, saved, ids, endpoints, conf, cur,
                   list, existing, runs, hasty>>

\* A cluster lives in the data directories of its members.
Remaining(f, d) ==
    [c \in Configs |-> IF \E h \in Hosts : d[h].cluster = c THEN f[c] ELSE {}]

\* The Node object goes, then reconcileHost removes the container and the
\* data; any error is warned about and leaves the rest.
ReconcileHost ==
    /\ pc = "delete_node"
    /\ LET h == First(todo) IN
       \E k \in 0..2 :
          /\ ctr' = IF k < 1 THEN ctr ELSE [ctr EXCEPT ![h] = NoContainer]
          /\ data' = IF k < 2 THEN data ELSE [data EXCEPT ![h] = NoData]
          /\ up' = IF k < 1 THEN up ELSE up \ {h}
          /\ IF k = 2 THEN UNCHANGED <<faults, clean>> ELSE Fault
    /\ memb' = Remaining(memb, data')
    /\ announced' = Remaining(announced, data')
    /\ saved' = Remaining(saved, data')
    /\ todo' = todo \ {First(todo)}
    /\ pc' = "delete"
    /\ UNCHANGED <<parked, ids, endpoints, conf, cur, list, existing, runs,
                   result, astray, hasty>>

\* Mutant of Deleted: new hosts are left to RunEtcdPlane.
DeletedNoneAdded ==
    /\ pc = "delete" /\ todo = {}
    /\ list' = conf
    /\ Goto("run")
    /\ UNCHANGED <<hostVars, etcdVars, endpoints, conf, cur, todo, existing,
                   runs, astray, hasty>>

Deleted ==
    /\ pc = "delete" /\ todo = {}
    /\ todo' = conf \ cur
    /\ Goto("add")
    /\ UNCHANGED <<hostVars, etcdVars, endpoints, conf, cur, list, existing,
                   runs, astray, hasty>>

-----------------------------------------------------------------------------
(* reconcileEtcd: hosts to add, one at a time.                              *)

\* Mutant of ReadyHosts: hosts still to be added count as ready.
ReadyHostsAll == conf

ReadyHosts == conf \ (todo \ {First(todo)})

\* AddEtcdMember: refused by a cluster that has a member of that peer URL.
\* ReloadEtcdCluster then goes over the hosts not waiting to be added.
AddEtcdMember ==
    /\ pc = "add" /\ todo # {}
    /\ LET h == First(todo)
           through == {e \in conf : /\ Answers(e)
                                    /\ h \notin HostsOf(memb[data[e].cluster])}
       IN
       \/ /\ through # {}
          /\ memb' = [memb EXCEPT ![data[First(through)].cluster] =
                         @ \cup {Member(h, ids + 1)}]
          /\ ids' = ids + 1
          /\ list' = ReadyHosts
          /\ existing' = existing \cup ReadyHosts
          /\ Goto("reload")
          /\ UNCHANGED <<conf, cur, todo, runs, astray, hasty>>
       \/ /\ through = {} /\ Settled
          /\ Fail
          /\ UNCHANGED <<memb, ids, faults, clean>>
    /\ UNCHANGED <<hostVars, announced, saved, endpoints>>

Added ==
    /\ pc = "add" /\ todo = {}
    /\ list' = conf
    /\ Goto("run")
    /\ UNCHANGED <<hostVars, etcdVars, endpoints, conf, cur, todo, existing,
                   runs, astray, hasty>>

-----------------------------------------------------------------------------
(* DoRunContainer on one host.                                              *)

\* Mutant of EtcdConfig: ExistingEtcdCluster is not looked at.
EtcdConfigNew(h, init) == [started |-> TRUE, init |-> init, state |-> "new"]

\* buildEtcdConfig.
EtcdConfig(h, init) ==
    [started |-> TRUE, init |-> init,
     state |-> IF h \in existing THEN "existing" ELSE "new"]

Stopped(c) == [c EXCEPT !.started = FALSE]

\* The container, and the host if an old-etcd is parked on it, after
\* DoRunContainer has returned nil, and after it has failed.  A stopped
\* container is started as it is; a running one with other flags is parked,
\* replaced and dropped.
RunOk(h, want) ==
    CASE ctr[h] = NoContainer -> {<<want, parked \cap {h}>>}
      [] ctr[h] # NoContainer /\ ~ctr[h].started ->
             {<<[ctr[h] EXCEPT !.started = TRUE], parked \cap {h}>>}
      [] ctr[h] = want -> {<<want, parked \cap {h}>>}
      [] OTHER -> IF h \in parked THEN {} ELSE {<<want, {}>>}

RunBroken(h, want) ==
    CASE ctr[h] = NoContainer -> {<<Stopped(want), parked \cap {h}>>}
      [] ctr[h] # NoContainer /\ (ctr[h] = want \/ ~ctr[h].started) -> {}
      [] OTHER -> {<<Stopped(ctr[h]), parked \cap {h}>>} \cup
                  IF h \in parked THEN {}
                  ELSE {NoContainer, Stopped(want), want} \X {{h}}

\* A parked container blocks every later update, after the stop.
Blocked(h, want) == RunOk(h, want) = {}

SetContainer(h, new) ==
    /\ ctr' = [ctr EXCEPT ![h] = new[1]]
    /\ parked' = parked \cup new[2]
    /\ up' = IF new[1] = ctr[h] THEN up ELSE up \ {h}

RunContainer(h, want) ==
    \/ /\ \E new \in RunOk(h, want) : SetContainer(h, new)
       /\ list' = list \ {First(list)}
       /\ UNCHANGED <<pc, faults, clean, result, conf, cur, todo, existing,
                      runs, astray, hasty>>
    \/ /\ \E new \in RunBroken(h, want) : SetContainer(h, new)
       /\ IF Blocked(h, want) THEN UNCHANGED <<faults, clean>> ELSE Fault
       /\ Fail

-----------------------------------------------------------------------------
(* ReloadEtcdCluster and RunEtcdPlane.                                      *)

ReloadHost ==
    /\ pc = "reload" /\ list # {}
    /\ RunContainer(First(list), EtcdConfig(First(list), ReadyHosts))
    /\ UNCHANGED <<data, etcdVars, endpoints>>

\* isEtcdHealthy of one host after the other: one healthy member is enough.
IsEtcdHealthy(S) == \E h \in S : Answers(h)

CheckHealth ==
    /\ pc = "reload" /\ list = {}
    /\ \/ /\ IsEtcdHealthy(ReadyHosts)
          /\ todo' = todo \ {First(todo)}
          /\ Goto("add")
          /\ UNCHANGED <<conf, cur, list, existing, runs, astray, hasty>>
       \/ /\ ~IsEtcdHealthy(ReadyHosts)
          /\ IF Settled THEN UNCHANGED <<faults, clean>> ELSE Fault
          /\ Fail
    /\ UNCHANGED <<hostVars, etcdVars, endpoints>>

RunEtcdPlane ==
    /\ pc = "run" /\ list # {}
    /\ RunContainer(First(list), EtcdConfig(First(list), conf))
    /\ UNCHANGED <<data, etcdVars, endpoints>>

\* The API servers are started, or rolled, with the configured endpoints.
RunKubeAPI ==
    /\ pc = "run" /\ list = {}
    /\ endpoints' = conf
    /\ Goto("save")
    /\ UNCHANGED <<hostVars, etcdVars, procVars, runs, astray, hasty>>

\* Mutant of SaveClusterState: the fetched configuration is saved again.
SaveClusterStateOld ==
    /\ pc = "save"
    /\ \E h \in endpoints :
          /\ Answers(h)
          /\ saved' = [saved EXCEPT ![data[h].cluster] =
                                       IF cur = {} THEN conf ELSE cur]
    /\ pc' = "idle" /\ result' = "up"
    /\ UNCHANGED <<hostVars, memb, announced, ids, endpoints, procVars, runs,
                   faults, clean, astray, hasty>>

\* Their health check and SaveClusterState need an etcd that answers.
SaveClusterState ==
    /\ pc = "save"
    /\ \/ /\ \E h \in endpoints :
                /\ Answers(h)
                /\ saved' = [saved EXCEPT ![data[h].cluster] = conf]
          /\ pc' = "idle" /\ result' = "up"
          /\ UNCHANGED <<procVars, runs, faults, clean, astray, hasty>>
       \/ /\ \A h \in endpoints : ~Answers(h)
          /\ IF Settled THEN UNCHANGED <<faults, clean>> ELSE Fault
          /\ Fail
          /\ UNCHANGED saved
    /\ UNCHANGED <<hostVars, memb, announced, ids, endpoints>>

-----------------------------------------------------------------------------
RkeStep ==
    \/ GetClusterState \/ RemoveEtcdMember \/ ReconcileHost \/ Deleted
    \/ AddEtcdMember \/ Added \/ ReloadHost \/ CheckHealth \/ RunEtcdPlane
    \/ RunKubeAPI \/ SaveClusterState

Next ==
    \/ \E c \in Configs : StartUp(c)
    \/ RkeStep
    \/ Abort
    \/ \E h \in Hosts : Boot(h)

Spec == Init /\ [][Next]_vars

\* rke's loops and timeouts end, and Docker restarts an etcd until it serves.
FairSpec ==
    /\ Spec
    /\ WF_vars(RkeStep)
    /\ \A h \in Hosts : WF_vars(Boot(h))

-----------------------------------------------------------------------------
(* Properties.                                                              *)

\* Never do two etcd clusters take requests side by side, each with a majority
\* of its own members, as long as every run's view of etcd was right; also if
\* some began before etcd had come up.
OneQuorum ==
    ~astray =>
        \A c, d \in Configs :
            (Serving(c) # {} /\ Serving(d) # {} /\ Quorum(c) /\ Quorum(d))
            => c = d

\* Hosts on which an earlier run left what stands in a later one's way: a
\* parked container, a stopped member, or the data of one that was removed.
Residue == parked \cup {h \in Hosts : /\ data[h] # NoData
                                      /\ ~(IsMember(h) /\ ctr[h].started)}

\* Members that are there: with their data, or about to get it.
Intact(c) == {m \in memb[c] : MemberOn(m.host) = m \/ CanBoot(m.host)}

\* While "rke up" changes the membership, and after it succeeds, every member
\* is there or about to be: no member's data is deleted before the member is.
\* Missing are at most members whose host an earlier run left unfit for them
\* and, while the flags for one new member are reloaded, the other new ones.
\* (A run that begins before a member has come up for the first time may roll
\* its container with flags it cannot join with.)
MembersIntact ==
    (~astray /\ ~hasty /\ pc # "state" /\ result # "err")
    => \A c \in Configs :
          saved[c] # {} =>
              HostsOf(memb[c] \ Intact(c))
              \subseteq Residue \cup IF pc = "reload" THEN conf \ cur ELSE {}

\* Without errors and crashes, the state a run fetches is etcd's membership,
\* and the run carries out every removal; unless all etcd hosts are exchanged
\* at once, so that no configured host can reach the cluster, or some run
\* began too early.
ViewShared ==
    [][~astray /\ ~hasty /\ astray' /\ faults' = 0
       => cur' # {} /\ cur' \cap conf = {}]_vars

\* A run without errors or crashes of its own succeeds, whatever failed in
\* earlier ones, unless those made rke's view of etcd wrong (a run that changed
\* the membership and did not get to save it does), left residue on a
\* configured host, or were begun too early.
CleanRunSucceeds ==
    [][pc # "idle" /\ result' = "err" /\ clean'
       => astray \/ hasty \/ Residue \cap conf # {}]_vars

\* "rke up" succeeds as soon as one member answers; the others join in the
\* end, all in one cluster whose members are exactly the configured hosts,
\* unless another run comes first or some run began too early.
MembersJoin ==
    (result = "up" /\ ~astray /\ ~hasty /\ Residue \cap conf = {})
    ~> (\/ result # "up"
        \/ \E c \in Configs : /\ conf = Serving(c) /\ conf = saved[c]
                              /\ conf = HostsOf(memb[c]))
=============================================================================
