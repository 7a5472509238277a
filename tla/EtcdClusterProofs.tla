-------------------------- MODULE EtcdClusterProofs --------------------------
(***************************************************************************)
(* Proofs about EtcdCluster, for all sets of hosts and configurations and  *)
(* any number of runs, errors and crashes.                                 *)
(*                                                                         *)
(* The argument: as long as a run's view of etcd is right there is one     *)
(* cluster only, and at every stage of a run its members are exactly the   *)
(* hosts that the stage's work list says, with the flags of the containers *)
(* of hosts without data in step with it.                                  *)
(***************************************************************************)
EXTENDS EtcdCluster, FiniteSetTheorems, WellFoundedInduction, TLAPS

-----------------------------------------------------------------------------
(* The invariant, in named parts.                                           *)

Stages == {"idle", "state", "delete", "delete_node", "add", "reload", "run",
           "save"}

TypeOK ==
    /\ ctr \in [Hosts -> [started : BOOLEAN, init : SUBSET Hosts,
                          state : {"none", "new", "existing"}]]
    /\ data \in [Hosts -> [cluster : SUBSET Hosts, id : Nat]]
    /\ parked \subseteq Hosts /\ up \subseteq Hosts
    /\ memb \in [Configs -> SUBSET [host : Hosts, id : Nat]]
    /\ announced \in [Configs -> SUBSET [host : Hosts, id : Nat]]
    /\ saved \in [Configs -> SUBSET Hosts]
    /\ ids \in Nat /\ endpoints \subseteq Hosts
    /\ pc \in Stages
    /\ conf \subseteq Hosts /\ cur \subseteq Hosts /\ todo \subseteq Hosts
    /\ list \subseteq Hosts /\ existing \subseteq Hosts
    /\ faults \in Nat /\ clean \in BOOLEAN /\ astray \in BOOLEAN

Fresh == {h \in Hosts : data[h] = NoData}
Peered(S) == [started |-> TRUE, init |-> S, state |-> "existing"]
Founding(S) == [started |-> TRUE, init |-> S, state |-> "new"]

\* Where the process is, whatever its view of etcd.
ProcInv ==
    /\ pc # "idle" => conf \in Configs
    /\ pc \in {"state", "delete", "delete_node"} => existing = {}
    /\ pc \in {"delete", "delete_node"} => todo \subseteq cur \ conf
    /\ pc \in {"add", "reload"} => todo \subseteq conf \ cur
    /\ pc \in {"delete_node", "reload"} => todo # {}
    /\ pc = "reload" => list \subseteq ReadyHosts /\ ReadyHosts \subseteq existing
    /\ pc \in {"delete", "delete_node", "add", "reload"} => cur # {}
    /\ pc = "run" => list \subseteq conf
    /\ pc = "save" => endpoints = conf
    /\ pc = "state" => Settled \/ hasty
    /\ pc # "idle" => result # "err"

\* Containers, data and membership, whatever rke's view of them.
HostInv ==
    \A h \in Hosts :
       /\ ctr[h] # NoContainer =>
             h \in ctr[h].init /\ ctr[h].state \in {"new", "existing"}
       /\ ctr[h].state = "new" => ctr[h].init \in Configs
       /\ h \in up => IsMember(h) /\ ctr[h].started
       /\ data[h] # NoData =>
             data[h].cluster \in Configs /\ memb[data[h].cluster] # {}

EtcdInv ==
    \A c \in Configs :
       /\ IsFiniteSet(memb[c])
       /\ \A m, n \in memb[c] : m.host = n.host => m = n
       /\ memb[c] # {} => \E h \in Hosts : data[h].cluster = c
       /\ memb[c] = {} => announced[c] = {} /\ saved[c] = {}

\* Members added later get new ids.
IdsInv ==
    /\ \A h \in Hosts : data[h].id <= ids
    /\ \A c \in Configs : \A m \in memb[c] : m.id <= ids

\* A quorum has published the names of its members.
NamesInv ==
    \A c \in Configs, h \in Hosts :
       Quorum(c) /\ h \in Serving(c) => MemberOn(h) \in announced[c]

\* The clusters there are, and those a container without data would found.
Claims == {data[h].cluster : h \in Hosts \ Fresh} \cup
          {ctr[h].init : h \in {x \in Fresh : ctr[x].state = "new"}}

\* One cluster, and its founders are expected.
OneCluster ==
    /\ \A c, d \in Claims : c = d
    /\ \A h \in Fresh, c \in Configs :
          ctr[h].state = "new" \/ (pc = "run" /\ cur = {}) =>
             /\ Member(h, 0) \notin announced[c]
             /\ ctr[h].state = "new" /\ memb[ctr[h].init] # {} =>
                   Member(h, 0) \in memb[ctr[h].init]

\* Between two runs, when the saved state is the membership.
IdleInv ==
    pc \in {"idle", "state"} => \A c \in Configs :
       /\ saved[c] # {} /\ HostsOf(memb[c]) = saved[c] =>
             \A h \in Fresh : IF h \in saved[c] THEN CanBoot(h)
                              ELSE ctr[h] = NoContainer
       /\ pc = "idle" /\ result # "err" /\ saved[c] # {} =>
             HostsOf(memb[c]) = saved[c]

\* In the first run, or one that found nothing.
FirstRun ==
    cur = {} /\ pc \in {"run", "save"} =>
       /\ Claims \subseteq {conf}
       /\ existing = {}
       /\ \A c \in Configs : /\ saved[c] = {}
                             /\ memb[c] \in {{}, Founders(conf)}
       /\ \A h \in Fresh :
             ctr[h] = IF h \in conf /\ (pc = "run" => h \notin list)
                      THEN Founding(conf) ELSE NoContainer

\* The members there are at each stage of a later run.
Membership ==
    CASE pc = "delete" -> (cur \cap conf) \cup todo
      [] pc = "delete_node" -> (cur \cap conf) \cup (todo \ {First(todo)})
      [] pc = "add" -> conf \ todo
      [] pc = "reload" -> ReadyHosts
      [] OTHER -> conf

LaterRun == cur # {} /\ pc \notin {"idle", "state"}

MembersInv ==
    LaterRun =>
       /\ \A c \in Configs :
             memb[c] # {} => saved[c] = cur /\ HostsOf(memb[c]) = Membership
       /\ Fresh \cap cur \cap conf = {}
       /\ pc \in {"delete", "delete_node"} => Fresh \cap todo = {}
       /\ cur \cap conf = {} => pc = "delete" /\ todo = cur

\* The containers of hosts without data: none before the host's turn, then
\* one that waits to join the membership there is.
FlagsInv ==
    LaterRun => \A h \in Fresh :
       CASE pc \in {"delete", "delete_node"} -> ctr[h] = NoContainer
         [] pc = "reload" /\ h \in list ->
               ctr[h] = NoContainer \/
               (ctr[h].started /\ ctr[h].state = "existing")
         [] OTHER -> ctr[h] = IF h \in Membership THEN Peered(Membership)
                              ELSE NoContainer

\* Members that may be left with other flags than the reload gives them: those
\* whose stopped containers are started as they are.
Unreloaded ==
    {h \in ReadyHosts :
        /\ IsMember(h)
        /\ IF h \in list THEN ctr[h] # NoContainer /\ ~ctr[h].started
           ELSE ctr[h] # Peered(ReadyHosts)}

\* A new member has somebody to join.
PeerInv ==
    LaterRun =>
       /\ pc = "reload" => \A c \in Configs :
             memb[c] # {} => 2 * Cardinality(Unreloaded) < Cardinality(memb[c])
       /\ pc \in {"add", "run", "save"} /\ Membership \ cur # {} =>
             /\ Membership \subseteq existing
             /\ \E p \in up : ctr[p] = Peered(Membership)

ViewInv == IdleInv /\ OneCluster /\ FirstRun /\ MembersInv /\ FlagsInv /\ PeerInv

EtcdClusterInv ==
    /\ TypeOK /\ ProcInv /\ HostInv /\ EtcdInv /\ IdsInv
    /\ ~astray /\ ~hasty => ViewInv

\* As long as nothing has failed, nothing is left behind.
AllInOrder ==
    /\ result # "err" /\ parked = {}
    /\ \A h \in Hosts :
          ctr[h] = NoContainer \/ ctr[h].started
    /\ \A h \in Hosts \ Fresh :
          (pc = "delete_node" /\ h = First(todo)) \/
          (IsMember(h) /\ ctr[h].started)
    /\ pc \in {"idle", "state"} =>
          \/ /\ endpoints = {}
             /\ \A c \in Configs : memb[c] = {}
             /\ \A h \in Hosts : ctr[h] = NoContainer
          \/ \E c \in Configs :
                /\ memb[c] # {}
                /\ saved[c] = endpoints /\ HostsOf(memb[c]) = endpoints

FaultFree == ~astray /\ ~hasty /\ faults = 0 => AllInOrder

-----------------------------------------------------------------------------
(* The operators of the model.                                              *)

\* Every non-empty set of natural numbers has a least one.
LEMMA LeastNatural ==
  ASSUME NEW T \in SUBSET Nat, T # {}
  PROVE  \E x \in T : \A y \in T : x <= y
<1> DEFINE R == OpToRel(<, Nat)
<1>1. IsWellFoundedOn(R, Nat)
  BY NatLessThanWellFounded
<1>2. \A x, y \in Nat : x < y => <<x, y>> \in R
  BY DEF OpToRel
<1> HIDE DEF R
<1>3. PICK x \in T : \A y \in T : ~(<<y, x>> \in R)
  BY <1>1, WFMin
<1>4. \A y \in T : y \in Nat /\ x \in Nat /\ ~(y < x)
  BY <1>2, <1>3
<1> QED BY <1>4

\* Of some hosts, one comes first.
LEMMA FirstFacts ==
  ASSUME NEW S \in SUBSET Hosts, S # {}
  PROVE  First(S) \in S
<1>1. HostOrder \in [Hosts -> Nat]
  BY EtcdAssumption
<1>2. {HostOrder[h] : h \in S} \in SUBSET Nat /\ {HostOrder[h] : h \in S} # {}
  BY <1>1
<1>3. \E x \in {HostOrder[h] : h \in S} : \A y \in {HostOrder[h] : h \in S} : x <= y
  BY <1>2, LeastNatural
<1>4. \E h \in S : \A g \in S : HostOrder[h] <= HostOrder[g]
  BY <1>3
<1> QED BY <1>4 DEF First

\* The members a cluster starts with.
LEMMA FoundersFacts ==
  ASSUME NEW c \in Configs
  PROVE  /\ c \subseteq Hosts /\ c # {} /\ IsFiniteSet(Founders(c))
         /\ Founders(c) \subseteq [host : Hosts, id : Nat]
         /\ Founders(c) # {} /\ HostsOf(Founders(c)) = c
         /\ \A m, n \in Founders(c) : m.host = n.host => m = n
<1>1. c \subseteq Hosts /\ c # {} /\ IsFiniteSet(Hosts)
  BY EtcdAssumption
<1>2. IsFiniteSet(c)
  BY <1>1, FS_Subset
<1>3. [h \in c |-> Member(h, 0)] \in Surjection(c, Founders(c))
  BY DEF Surjection, Founders
<1>4. IsFiniteSet(Founders(c))
  BY <1>2, <1>3, FS_Surjection
<1>5. Founders(c) # {} /\ HostsOf(Founders(c)) = c
  <2>1. \A h \in c : Member(h, 0).host = h
    BY DEF Member
  <2> HIDE DEF Member
  <2> QED BY <1>1, <2>1 DEF Founders, HostsOf
<1>6. Founders(c) \subseteq [host : Hosts, id : Nat]
  BY <1>1 DEF Founders, Member
<1>7. \A m, n \in Founders(c) : m.host = n.host => m = n
  BY DEF Founders, Member
<1> QED BY <1>1, <1>4, <1>5, <1>6, <1>7

\* What a started etcd may make of its flags and its data.
LEMMA BootFacts ==
  ASSUME TypeOK, HostInv, NEW h \in Hosts, CanBoot(h), NEW d \in BootData(h)
  PROVE  /\ d.cluster \in Configs /\ d \in [cluster : SUBSET Hosts, id : Nat]
         /\ data[h] # NoData => d = data[h] /\ IsMember(h)
         /\ data[h] = NoData =>
               \/ /\ ctr[h].state = "new" /\ MayBootstrap(h)
                  /\ d.cluster = ctr[h].init /\ d.id = 0
               \/ /\ ctr[h].state = "existing"
                  /\ \E p \in up \ {h} : d.cluster = data[p].cluster
                  /\ Member(h, d.id) \in memb[d.cluster]
<1>1. CASE data[h] # NoData
  BY <1>1 DEF TypeOK, HostInv, CanBoot, BootData
<1>2. CASE data[h] = NoData
  <2>1. CASE MayBootstrap(h) /\ d = [cluster |-> ctr[h].init, id |-> 0]
    <3>1. ctr[h].init \in Configs /\ ctr[h].state = "new"
      BY <2>1 DEF HostInv, MayBootstrap
    <3>2. ctr[h].init \in SUBSET Hosts
      BY <3>1, FoundersFacts
    <3> QED BY <1>2, <2>1, <3>1, <3>2
  <2>2. ASSUME NEW p \in Hosts, MayJoin(h, p),
               d = [cluster |-> data[p].cluster,
                    id |-> (CHOOSE m \in memb[data[p].cluster] : m.host = h).id]
        PROVE  /\ d.cluster \in Configs /\ d \in [cluster : SUBSET Hosts, id : Nat]
               /\ ctr[h].state = "existing" /\ p \in up \ {h}
               /\ d.cluster = data[p].cluster
               /\ Member(h, d.id) \in memb[d.cluster]
    <3> DEFINE c == data[p].cluster
               m == CHOOSE x \in memb[c] : x.host = h
    <3>1. p \in up \ {h} /\ ctr[h].state = "existing" /\ HostsOf(memb[c]) = ctr[h].init
      BY <2>2 DEF MayJoin
    <3>2. ctr[h] # NoContainer
      BY <3>1 DEF NoContainer
    <3>3. h \in HostsOf(memb[c])
      BY <3>1, <3>2 DEF HostInv
    <3>4. \E x \in memb[c] : x.host = h
      BY <3>3 DEF HostsOf
    <3>5. m \in memb[c] /\ m.host = h
      BY <3>4
    <3>6. c \in Configs
      BY <3>1 DEF HostInv, IsMember
    <3>7. memb[c] \subseteq [host : Hosts, id : Nat] /\ c \in SUBSET Hosts
      BY <3>6, FoundersFacts DEF TypeOK
    <3>8. m = Member(h, m.id) /\ m.id \in Nat
      BY <3>5, <3>7 DEF Member
    <3> QED BY <2>2, <3>1, <3>5, <3>6, <3>7, <3>8
  <2>3. \/ MayBootstrap(h) /\ d = [cluster |-> ctr[h].init, id |-> 0]
        \/ \E p \in Hosts : /\ MayJoin(h, p)
                            /\ d = [cluster |-> data[p].cluster,
                                    id |-> (CHOOSE m \in memb[data[p].cluster] :
                                               m.host = h).id]
    BY <1>2 DEF BootData
  <2> QED BY <1>2, <2>1, <2>2, <2>3
<1> QED BY <1>1, <1>2

\* What DoRunContainer leaves of the container.
Containers == [started : BOOLEAN, init : SUBSET Hosts,
               state : {"none", "new", "existing"}]

LEMMA RunOkFacts ==
  ASSUME TypeOK, NEW h \in Hosts, NEW want \in Containers, want.started,
         NEW new \in RunOk(h, want)
  PROVE  /\ new[1] \in Containers /\ new[1].started /\ new[2] \subseteq parked
         /\ \/ new[1] = want
            \/ /\ ctr[h] # NoContainer /\ ~ctr[h].started
               /\ new[1] = [ctr[h] EXCEPT !.started = TRUE]
<1>1. ctr[h] \in Containers
  BY DEF TypeOK, Containers
<1>2. CASE ctr[h] = NoContainer
  <2>1. new = <<want, parked \cap {h}>>
    BY <1>2 DEF RunOk, NoContainer
  <2> QED BY <2>1
<1>3. CASE ctr[h] # NoContainer /\ ~ctr[h].started
  <2>1. new = <<[ctr[h] EXCEPT !.started = TRUE], parked \cap {h}>>
    BY <1>3 DEF RunOk
  <2>2. [ctr[h] EXCEPT !.started = TRUE] \in Containers
    BY <1>1 DEF Containers
  <2>3. [ctr[h] EXCEPT !.started = TRUE].started
    BY <1>1 DEF Containers
  <2> QED BY <1>3, <2>1, <2>2, <2>3
<1>4. CASE ctr[h] # NoContainer /\ ctr[h].started
  <2>1. new \in {<<want, parked \cap {h}>>, <<want, {}>>}
    BY <1>4 DEF RunOk
  <2> QED BY <2>1
<1> QED BY <1>2, <1>3, <1>4

LEMMA RunBrokenFacts ==
  ASSUME TypeOK, NEW h \in Hosts, NEW want \in Containers, want.started,
         NEW new \in RunBroken(h, want)
  PROVE  /\ new[1] \in Containers /\ new[2] \subseteq Hosts
         /\ ctr[h] = NoContainer => new[1] = Stopped(want)
         /\ ctr[h] # NoContainer => ctr[h].started /\ ctr[h] # want
         /\ new[1] \in {NoContainer, want, Stopped(want), Stopped(ctr[h])}
<1>1. ctr[h] \in Containers /\ NoContainer \in Containers /\ parked \subseteq Hosts
  BY DEF TypeOK, Containers, NoContainer
<1>2. Stopped(want) \in Containers /\ Stopped(ctr[h]) \in Containers
  BY <1>1 DEF Containers, Stopped
<1>3. CASE ctr[h] = NoContainer
  <2>1. new = <<Stopped(want), parked \cap {h}>>
    BY <1>3 DEF RunBroken, NoContainer
  <2> QED BY <1>1, <1>2, <1>3, <2>1
<1>4. CASE ctr[h] # NoContainer
  <2>1. ctr[h] # want /\ ctr[h].started
    BY <1>4 DEF RunBroken
  <2>2. \/ new = <<Stopped(ctr[h]), parked \cap {h}>>
        \/ new \in {NoContainer, Stopped(want), want} \X {{h}}
    BY <1>4, <2>1 DEF RunBroken
  <2> QED BY <1>1, <1>2, <1>4, <2>1, <2>2
<1> QED BY <1>3, <1>4

LEMMA RunBlocked ==
  ASSUME NEW h \in Hosts, NEW want, Blocked(h, want)
  PROVE  h \in parked
BY DEF Blocked, RunOk

\* DoRunContainer on one host changes the container of that host only: it ends
\* as wanted, a stopped one is started as it was, or the run fails.
LEMMA RunEffect ==
  ASSUME TypeOK, NEW h \in Hosts, NEW S \in SUBSET Hosts,
         NEW want, want = EtcdConfig(h, S), RunContainer(h, want)
  PROVE  /\ ctr' \in [Hosts -> Containers] /\ parked' \subseteq Hosts
         /\ \A x \in Hosts : x # h => ctr'[x] = ctr[x]
         /\ up' \subseteq up /\ up \ {h} \subseteq up'
         /\ h \in up => (h \in up' <=> ctr'[h] = ctr[h])
         /\ \/ ctr'[h] = NoContainer
            \/ ctr'[h].init = S /\ ctr'[h].state = want.state
            \/ /\ ctr[h] # NoContainer
               /\ ctr'[h].init = ctr[h].init /\ ctr'[h].state = ctr[h].state
         /\ \/ /\ ctr'[h].started /\ parked' = parked
               /\ \/ ctr'[h] = want
                  \/ /\ ctr[h] # NoContainer /\ ~ctr[h].started
                     /\ ctr'[h] = [ctr[h] EXCEPT !.started = TRUE]
               /\ list' = list \ {First(list)}
               /\ UNCHANGED <<pc, faults, clean, result, conf, cur, todo,
                              existing, runs, astray>>
            \/ /\ ctr[h] = NoContainer => ctr'[h] = Stopped(want)
               /\ ctr[h] # NoContainer => ctr[h].started /\ ctr[h] # want
               /\ \/ Fault
                  \/ h \in parked /\ UNCHANGED <<faults, clean>>
               /\ Fail
<1>1. want \in Containers /\ want.started /\ want.init = S
  BY DEF EtcdConfig, Containers
<1>2. ctr \in [Hosts -> Containers] /\ parked \subseteq Hosts /\ up \subseteq Hosts
  BY DEF TypeOK, Containers
<1>3. ASSUME NEW new, new[1] \in Containers, new[2] \subseteq Hosts,
             SetContainer(h, new)
      PROVE  /\ ctr' \in [Hosts -> Containers] /\ parked' \subseteq Hosts
             /\ \A x \in Hosts : x # h => ctr'[x] = ctr[x]
             /\ ctr'[h] = new[1] /\ parked' = parked \cup new[2]
             /\ up' \subseteq up /\ up \ {h} \subseteq up'
             /\ h \in up => (h \in up' <=> ctr'[h] = ctr[h])
  <2>1. ctr' = [ctr EXCEPT ![h] = new[1]] /\ parked' = parked \cup new[2]
    BY <1>3 DEF SetContainer
  <2>2. up' = IF new[1] = ctr[h] THEN up ELSE up \ {h}
    BY <1>3 DEF SetContainer
  <2> QED BY <1>2, <1>3, <2>1, <2>2
<1>4. CASE /\ \E new \in RunOk(h, want) : SetContainer(h, new)
           /\ list' = list \ {First(list)}
           /\ UNCHANGED <<pc, faults, clean, result, conf, cur, todo, existing,
                          runs, astray>>
  <2>1. PICK new \in RunOk(h, want) : SetContainer(h, new)
    BY <1>4
  <2>2. /\ new[1] \in Containers /\ new[1].started /\ new[2] \subseteq parked
        /\ \/ new[1] = want
           \/ /\ ctr[h] # NoContainer /\ ~ctr[h].started
              /\ new[1] = [ctr[h] EXCEPT !.started = TRUE]
    BY <1>1, RunOkFacts
  <2>3. new[1] = [ctr[h] EXCEPT !.started = TRUE] =>
           new[1].init = ctr[h].init /\ new[1].state = ctr[h].state
    BY <1>2 DEF Containers
  <2> QED BY <1>1, <1>2, <1>3, <1>4, <2>1, <2>2, <2>3
<1>5. CASE /\ \E new \in RunBroken(h, want) : SetContainer(h, new)
           /\ IF Blocked(h, want) THEN UNCHANGED <<faults, clean>> ELSE Fault
           /\ Fail
  <2>1. PICK new \in RunBroken(h, want) : SetContainer(h, new)
    BY <1>5
  <2>2. /\ new[1] \in Containers /\ new[2] \subseteq Hosts
        /\ ctr[h] = NoContainer => new[1] = Stopped(want)
        /\ ctr[h] # NoContainer => ctr[h].started /\ ctr[h] # want
        /\ new[1] \in {NoContainer, want, Stopped(want), Stopped(ctr[h])}
    BY <1>1, RunBrokenFacts
  <2>3. /\ Stopped(want).init = S /\ Stopped(want).state = want.state
        /\ Stopped(ctr[h]).init = ctr[h].init
        /\ Stopped(ctr[h]).state = ctr[h].state
    BY <1>1, <1>2 DEF Stopped, Containers
  <2>4. Fault \/ (h \in parked /\ UNCHANGED <<faults, clean>>)
    BY <1>5, RunBlocked
  <2>5. ctr[h] = NoContainer => new[1].init = S /\ new[1].state = want.state
    BY <2>2, <2>3
  <2> QED BY <1>1, <1>2, <1>3, <1>5, <2>1, <2>2, <2>3, <2>4, <2>5
<1> QED BY <1>4, <1>5 DEF RunContainer

\* A booting etcd takes up its data, and its cluster if it is the first.
LEMMA BootEffect ==
  ASSUME TypeOK, HostInv, EtcdInv, NEW h \in Hosts, Boot(h)
  PROVE  \E d \in BootData(h) :
            /\ d.cluster \in Configs /\ d \in [cluster : SUBSET Hosts, id : Nat]
            /\ data' = [data EXCEPT ![h] = d]
            /\ \A c \in Configs :
                  memb'[c] = IF c = d.cluster /\ memb[c] = {} THEN Founders(c)
                             ELSE memb[c]
            /\ up' = IF Member(h, d.id) \in memb'[d.cluster] THEN up \cup {h}
                     ELSE up
            /\ \A c \in Configs :
                  /\ c # d.cluster => announced'[c] = announced[c]
                  /\ announced'[c] \in
                        {announced[c],
                         announced[c] \cup
                            {Member(x, data'[x].id) : x \in Serving(c)'}}
                  /\ c = d.cluster /\ Quorum(c)' =>
                        announced'[c] = announced[c] \cup
                            {Member(x, data'[x].id) : x \in Serving(c)'}
            /\ memb' \in [Configs -> SUBSET [host : Hosts, id : Nat]]
            /\ announced' \in [Configs -> SUBSET [host : Hosts, id : Nat]]
<1>1. PICK d \in BootData(h) :
         LET c == d.cluster
             M == IF memb[c] = {} THEN Founders(c) ELSE memb[c]
         IN  /\ data' = [data EXCEPT ![h] = d]
             /\ memb' = [memb EXCEPT ![c] = M]
             /\ up' = IF Member(h, d.id) \in M THEN up \cup {h} ELSE up
             /\ announced' =
                   [announced EXCEPT ![c] =
                       IF 2 * Cardinality(Serving(c)') > Cardinality(M)
                       THEN @ \cup {Member(x, data'[x].id) :
                                       x \in Serving(c)'}
                       ELSE @]
  BY DEF Boot
<1> DEFINE c == d.cluster
           M == IF memb[c] = {} THEN Founders(c) ELSE memb[c]
           A == {Member(x, data'[x].id) : x \in Serving(c)'}
<1>2. c \in Configs /\ d \in [cluster : SUBSET Hosts, id : Nat]
  BY BootFacts DEF Boot
<1>3. data' \in [Hosts -> [cluster : SUBSET Hosts, id : Nat]] /\ up' \subseteq Hosts
  BY <1>1, <1>2 DEF TypeOK
<1>4. M \in SUBSET [host : Hosts, id : Nat]
  BY <1>2, FoundersFacts DEF TypeOK
<1>5. memb' \in [Configs -> SUBSET [host : Hosts, id : Nat]] /\ memb'[c] = M
  BY <1>1, <1>2, <1>4 DEF TypeOK
<1>6. A \in SUBSET [host : Hosts, id : Nat]
  <2>1. \A x \in Serving(c)' : x \in Hosts /\ data'[x].id \in Nat
    BY <1>3 DEF Serving
  <2> QED BY <2>1 DEF Member
<1>7. announced' = [announced EXCEPT ![c] =
                       IF 2 * Cardinality(Serving(c)') > Cardinality(M)
                       THEN announced[c] \cup A ELSE announced[c]]
  BY <1>1, <1>2 DEF TypeOK
<1>8. announced' \in [Configs -> SUBSET [host : Hosts, id : Nat]]
  BY <1>2, <1>6, <1>7 DEF TypeOK
<1>9. Quorum(c)' => 2 * Cardinality(Serving(c)') > Cardinality(M)
  BY <1>5 DEF Quorum
<1>10. \A e \in Configs :
          /\ e # c => announced'[e] = announced[e]
          /\ announced'[e] \in {announced[e], announced[e] \cup
                                   {Member(x, data'[x].id) : x \in Serving(e)'}}
          /\ e = c /\ Quorum(e)' =>
                announced'[e] = announced[e] \cup
                    {Member(x, data'[x].id) : x \in Serving(e)'}
  BY <1>2, <1>7, <1>9 DEF TypeOK
<1>11. \A e \in Configs :
          memb'[e] = IF e = c /\ memb[e] = {} THEN Founders(e) ELSE memb[e]
  BY <1>1, <1>2 DEF TypeOK
<1>12. up' = IF Member(h, d.id) \in memb'[c] THEN up \cup {h} ELSE up
  BY <1>1, <1>5
<1> QED BY <1>1, <1>2, <1>5, <1>8, <1>10, <1>11, <1>12

-----------------------------------------------------------------------------
(* Types.                                                                   *)

LEMMA TypeInit == Init => TypeOK
<1> SUFFICES ASSUME Init PROVE TypeOK
  OBVIOUS
<1>1. NoContainer \in Containers /\ NoData \in [cluster : SUBSET Hosts, id : Nat]
  BY DEF NoContainer, NoData, Containers
<1> QED BY <1>1 DEF Init, TypeOK, Containers, Stages

\* The hosts the run is on, one after the other.
LEMMA HeadFacts ==
  ASSUME TypeOK
  PROVE  /\ todo # {} => First(todo) \in todo /\ First(todo) \in Hosts
         /\ list # {} => First(list) \in list /\ First(list) \in Hosts
         /\ ReadyHosts \subseteq Hosts
BY FirstFacts DEF TypeOK, ReadyHosts

LEMMA FaultFacts ==
  ASSUME TypeOK
  PROVE  /\ Fault => faults' \in Nat /\ faults' # 0 /\ clean' \in BOOLEAN /\ ~clean'
         /\ UNCHANGED <<faults, clean>> => faults' \in Nat /\ clean' \in BOOLEAN
         /\ UNCHANGED astray => astray' \in BOOLEAN
         /\ UNCHANGED pc => pc' \in Stages
<1>1. Fault => faults' \in Nat /\ faults' # 0
  BY DEF Fault, TypeOK
<1>2. Fault => clean' \in BOOLEAN /\ ~clean'
  BY DEF Fault
<1>3. UNCHANGED clean => clean' \in BOOLEAN
  BY DEF TypeOK
<1>4. UNCHANGED astray => astray' \in BOOLEAN
  BY DEF TypeOK
<1>5. UNCHANGED faults => faults' \in Nat
  BY DEF TypeOK
<1>6. UNCHANGED pc => pc' \in Stages
  BY DEF TypeOK
<1> QED BY <1>1, <1>2, <1>3, <1>4, <1>5, <1>6

LEMMA TypeStep == TypeOK /\ HostInv /\ EtcdInv /\ ProcInv /\ [Next]_vars => TypeOK'
<1> SUFFICES ASSUME TypeOK, HostInv, EtcdInv, ProcInv, [Next]_vars PROVE TypeOK'
  OBVIOUS
<1> USE DEF hostVars, etcdVars, procVars
<1>0. \A c \in Configs : c \subseteq Hosts
  BY EtcdAssumption
<1>1. ASSUME NEW c \in Configs, StartUp(c) PROVE TypeOK'
  BY <1>0, <1>1 DEF StartUp, TypeOK, Stages
<1>2. CASE GetClusterState
  <2>1. cur' \subseteq Hosts
    BY <1>2 DEF GetClusterState, TypeOK, HostInv, Answers, IsMember
  <2>2. faults' \in Nat /\ clean' \in BOOLEAN /\ astray' \in BOOLEAN
    <3>1. astray' \in BOOLEAN
      BY <1>2 DEF GetClusterState, TypeOK
    <3>2. faults' \in Nat
      BY <1>2 DEF GetClusterState, Fault, TypeOK
    <3>3. clean' \in BOOLEAN
      BY <1>2 DEF GetClusterState, Fault, TypeOK
    <3> QED BY <3>1, <3>2, <3>3
  <2>3. pc' \in Stages /\ todo' \subseteq Hosts /\ list' \subseteq Hosts
    BY <1>2, <2>1 DEF GetClusterState, TypeOK, Stages
  <2> QED BY <1>2, <2>1, <2>2, <2>3 DEF GetClusterState, TypeOK
<1>3. CASE RemoveEtcdMember
  <2>1. memb' \in [Configs -> SUBSET [host : Hosts, id : Nat]] /\ up' \subseteq Hosts
    BY <1>3 DEF RemoveEtcdMember, TypeOK
  <2>2. faults' \in Nat /\ clean' \in BOOLEAN /\ astray' \in BOOLEAN
    <3>1. astray' \in BOOLEAN
      BY <1>3 DEF RemoveEtcdMember, TypeOK
    <3>2. faults' \in Nat
      BY <1>3 DEF RemoveEtcdMember, Goto, Fault, TypeOK
    <3>3. clean' \in BOOLEAN
      BY <1>3 DEF RemoveEtcdMember, Goto, Fault, TypeOK
    <3> QED BY <3>1, <3>2, <3>3
  <2>3. pc' \in Stages /\ todo' \subseteq Hosts
    BY <1>3 DEF RemoveEtcdMember, Goto, TypeOK, Stages
  <2> QED BY <1>3, <2>1, <2>2, <2>3 DEF RemoveEtcdMember, TypeOK
<1>4. CASE ReconcileHost
  <2>1. PICK k \in 0..2 :
          /\ ctr' = IF k < 1 THEN ctr ELSE [ctr EXCEPT ![First(todo)] = NoContainer]
          /\ data' = IF k < 2 THEN data ELSE [data EXCEPT ![First(todo)] = NoData]
          /\ up' = IF k < 1 THEN up ELSE up \ {First(todo)}
          /\ IF k = 2 THEN UNCHANGED <<faults, clean>> ELSE Fault
    BY <1>4 DEF ReconcileHost
  <2>2. faults' \in Nat /\ clean' \in BOOLEAN /\ astray' \in BOOLEAN
    <3>1. Fault \/ UNCHANGED <<faults, clean>>
      BY <2>1
    <3> QED BY <1>4, <3>1, FaultFacts DEF ReconcileHost
  <2>3. NoContainer \in Containers /\ NoData \in [cluster : SUBSET Hosts, id : Nat]
    BY DEF NoContainer, NoData, Containers
  <2>4. ctr' \in [Hosts -> Containers]
    BY <2>1, <2>3 DEF TypeOK, Containers
  <2>5. data' \in [Hosts -> [cluster : SUBSET Hosts, id : Nat]] /\ up' \subseteq Hosts
    BY <2>1, <2>3 DEF TypeOK
  <2>6. /\ memb' \in [Configs -> SUBSET [host : Hosts, id : Nat]]
        /\ announced' \in [Configs -> SUBSET [host : Hosts, id : Nat]]
        /\ saved' \in [Configs -> SUBSET Hosts]
    BY <1>4 DEF ReconcileHost, Remaining, TypeOK
  <2> QED BY <1>4, <2>2, <2>4, <2>5, <2>6 DEF ReconcileHost, TypeOK, Stages, Containers
<1>5. CASE Deleted \/ Added \/ RunKubeAPI
  BY <1>5 DEF Deleted, Added, RunKubeAPI, Goto, TypeOK, Stages
<1>6. CASE AddEtcdMember
  <2> DEFINE h == First(todo)
             through == {e \in conf : /\ Answers(e)
                                      /\ h \notin HostsOf(memb[data[e].cluster])}
  <2>1. h \in Hosts /\ ReadyHosts \subseteq Hosts
    BY <1>6, HeadFacts DEF AddEtcdMember
  <2>2. CASE /\ memb' = [memb EXCEPT ![data[First(through)].cluster] =
                            @ \cup {Member(h, ids + 1)}]
             /\ ids' = ids + 1
             /\ list' = ReadyHosts
             /\ existing' = existing \cup ReadyHosts
             /\ Goto("reload")
             /\ UNCHANGED <<conf, cur, todo, runs, astray, hasty>>
    <3>1. Member(h, ids + 1) \in [host : Hosts, id : Nat]
      BY <2>1 DEF Member, TypeOK
    <3> HIDE DEF h, through
    <3>2. memb' \in [Configs -> SUBSET [host : Hosts, id : Nat]]
      BY <2>2, <3>1 DEF TypeOK
    <3> QED BY <1>6, <2>1, <2>2, <3>2 DEF AddEtcdMember, TypeOK, Goto, Stages
  <2>3. CASE Fail /\ UNCHANGED <<memb, ids, faults, clean>>
    BY <1>6, <2>3 DEF AddEtcdMember, Fail, TypeOK, Stages
  <2> QED BY <1>6, <2>2, <2>3 DEF AddEtcdMember
<1>7. ASSUME NEW h \in Hosts, NEW S \in SUBSET Hosts,
             RunContainer(h, EtcdConfig(h, S)),
             UNCHANGED <<data, etcdVars, endpoints>>
      PROVE  TypeOK'
  <2>1. ctr' \in [Hosts -> Containers] /\ parked' \subseteq Hosts /\ up' \subseteq Hosts
    BY <1>7, RunEffect DEF TypeOK
  <2>2. \/ /\ list' = list \ {First(list)}
           /\ UNCHANGED <<pc, faults, clean, conf, cur, todo, existing, astray>>
        \/ (Fault \/ UNCHANGED <<faults, clean>>) /\ Fail
    BY <1>7, RunEffect
  <2>3. /\ pc' \in Stages /\ faults' \in Nat /\ clean' \in BOOLEAN
        /\ astray' \in BOOLEAN
    BY <2>2, FaultFacts DEF Fail, Stages
  <2>4. /\ conf' \subseteq Hosts /\ cur' \subseteq Hosts /\ todo' \subseteq Hosts
        /\ list' \subseteq Hosts /\ existing' \subseteq Hosts
    BY <2>2 DEF TypeOK, Fail
  <2> QED BY <1>7, <2>1, <2>3, <2>4 DEF TypeOK, Containers
<1>8. CASE ReloadHost
  BY <1>7, <1>8, HeadFacts DEF ReloadHost
<1>9. CASE CheckHealth
  <2>1. faults' \in Nat /\ clean' \in BOOLEAN /\ astray' \in BOOLEAN
    BY <1>9, FaultFacts DEF CheckHealth, Goto, Fail
  <2>2. pc' \in Stages
    BY <1>9 DEF CheckHealth, Goto, Fail, Stages
  <2>3. todo' \subseteq Hosts /\ list' \subseteq Hosts
    BY <1>9 DEF CheckHealth, Fail, TypeOK
  <2>4. UNCHANGED <<conf, cur, existing>>
    BY <1>9 DEF CheckHealth, Fail
  <2> QED BY <1>9, <2>1, <2>2, <2>3, <2>4 DEF CheckHealth, TypeOK
<1>10. CASE RunEtcdPlane
  BY <1>7, <1>10, HeadFacts DEF RunEtcdPlane, TypeOK
<1>11. CASE SaveClusterState
  <2>1. saved' \in [Configs -> SUBSET Hosts]
    BY <1>11 DEF SaveClusterState, TypeOK
  <2>2. /\ faults' \in Nat /\ clean' \in BOOLEAN /\ astray' \in BOOLEAN
        /\ pc' \in Stages
    BY <1>11, FaultFacts DEF SaveClusterState, Fail, Stages
  <2>3. /\ UNCHANGED <<conf, cur, existing>>
        /\ todo' \subseteq Hosts /\ list' \subseteq Hosts
    BY <1>11 DEF SaveClusterState, Fail, TypeOK
  <2> QED BY <1>11, <2>1, <2>2, <2>3 DEF SaveClusterState, TypeOK
<1>12. CASE Abort
  <2>1. /\ faults' \in Nat /\ clean' \in BOOLEAN /\ astray' \in BOOLEAN
        /\ pc' \in Stages
    BY <1>12, FaultFacts DEF Abort, Fail, Stages
  <2> QED BY <1>12, <2>1 DEF Abort, Fail, TypeOK
<1>13. ASSUME NEW h \in Hosts, Boot(h) PROVE TypeOK'
  <2>1. PICK d \in [cluster : SUBSET Hosts, id : Nat] :
           /\ data' = [data EXCEPT ![h] = d]
           /\ up' \in {up, up \cup {h}}
           /\ memb' \in [Configs -> SUBSET [host : Hosts, id : Nat]]
           /\ announced' \in [Configs -> SUBSET [host : Hosts, id : Nat]]
    BY <1>13, BootEffect
  <2>2. UNCHANGED <<ctr, parked, saved, ids, endpoints, pc, procVars, faults,
                    clean, astray>>
    BY <1>13 DEF Boot
  <2> QED BY <2>1, <2>2 DEF TypeOK
<1>14. CASE UNCHANGED vars
  BY <1>14 DEF vars, TypeOK
<1> QED BY <1>1, <1>2, <1>3, <1>4, <1>5, <1>6, <1>8, <1>9, <1>10, <1>11, <1>12,
           <1>13, <1>14 DEF Next, RkeStep

-----------------------------------------------------------------------------
(* Where the process is.                                                    *)

\* Whether an etcd can come up is a matter of the hosts and of etcd.
LEMMA SameBoot ==
  ASSUME UNCHANGED <<ctr, data, up, memb, announced>>, NEW h \in Hosts
  PROVE  CanBoot(h)' <=> CanBoot(h)
<1>1. MayBootstrap(h)' <=> MayBootstrap(h)
  BY DEF MayBootstrap
<1>2. \A p \in Hosts : MayJoin(h, p)' <=> MayJoin(h, p)
  BY DEF MayJoin, HostsOf
<1>3. {q \in Hosts : MayJoin(h, q)}' = {q \in Hosts : MayJoin(h, q)}
  BY <1>2
<1>4. BootData(h)' = BootData(h)
  BY <1>1, <1>3 DEF BootData
<1>5. IsMember(h)' <=> IsMember(h)
  BY DEF IsMember, MemberOn
<1> QED BY <1>4, <1>5 DEF CanBoot

LEMMA ProcInit == Init => ProcInv
BY DEF Init, ProcInv

LEMMA ProcStep == TypeOK /\ ProcInv /\ [Next]_vars => ProcInv'
<1> SUFFICES ASSUME TypeOK, ProcInv, [Next]_vars PROVE ProcInv'
  OBVIOUS
<1> USE DEF hostVars, etcdVars, procVars
<1>1. ASSUME NEW c \in Configs, StartUp(c) PROVE ProcInv'
  <2>1. Settled' \/ hasty'
    BY <1>1, SameBoot DEF StartUp, Settled
  <2> QED BY <1>1, <2>1 DEF StartUp, ProcInv
<1>2. CASE GetClusterState
  BY <1>2 DEF GetClusterState, ProcInv
<1>3. CASE RemoveEtcdMember
  BY <1>3 DEF RemoveEtcdMember, Goto, ProcInv
<1>4. CASE ReconcileHost
  BY <1>4 DEF ReconcileHost, ProcInv
<1>5. CASE Deleted \/ Added \/ RunKubeAPI
  BY <1>5 DEF Deleted, Added, RunKubeAPI, Goto, ProcInv
<1>6. CASE AddEtcdMember
  <2>1. CASE Fail
    BY <2>1 DEF Fail, ProcInv
  <2>2. CASE /\ list' = ReadyHosts /\ existing' = existing \cup ReadyHosts
             /\ pc' = "reload" /\ UNCHANGED <<conf, cur, todo, result>>
    <3>1. ReadyHosts' = ReadyHosts
      BY <2>2 DEF ReadyHosts
    <3> QED BY <1>6, <2>2, <3>1 DEF AddEtcdMember, ProcInv
  <2> QED BY <1>6, <2>1, <2>2 DEF AddEtcdMember, Goto
<1>7. CASE ReloadHost
  <2>1. CASE Fail
    BY <2>1 DEF Fail, ProcInv
  <2>2. CASE /\ list' = list \ {First(list)}
             /\ UNCHANGED <<pc, conf, cur, todo, existing, result>>
    <3>1. ReadyHosts' = ReadyHosts
      BY <2>2 DEF ReadyHosts
    <3> QED BY <1>7, <2>2, <3>1 DEF ReloadHost, ProcInv
  <2> QED BY <1>7, <2>1, <2>2 DEF ReloadHost, RunContainer
<1>8. CASE CheckHealth
  BY <1>8 DEF CheckHealth, Goto, Fail, ProcInv
<1>9. CASE RunEtcdPlane
  <2>1. CASE Fail
    BY <2>1 DEF Fail, ProcInv
  <2>2. CASE /\ list' = list \ {First(list)}
             /\ UNCHANGED <<pc, conf, cur, todo, existing, result>>
    BY <1>9, <2>2 DEF RunEtcdPlane, ProcInv
  <2> QED BY <1>9, <2>1, <2>2 DEF RunEtcdPlane, RunContainer
<1>10. CASE SaveClusterState
  BY <1>10 DEF SaveClusterState, Fail, ProcInv
<1>11. CASE Abort
  BY <1>11 DEF Abort, Fail, ProcInv
<1>12. ASSUME NEW h \in Hosts, Boot(h) PROVE ProcInv'
  <2>1. pc = "state" => hasty'
    BY <1>12 DEF Boot, ProcInv, Settled
  <2>2. UNCHANGED <<pc, procVars, endpoints, result>>
    BY <1>12 DEF Boot
  <2> QED BY <2>1, <2>2 DEF ProcInv, ReadyHosts
<1>13. CASE UNCHANGED vars
  <2>1. Settled' <=> Settled
    BY <1>13, SameBoot DEF vars, Settled
  <2> QED BY <1>13, <2>1 DEF vars, ProcInv, ReadyHosts
<1> QED BY <1>1, <1>2, <1>3, <1>4, <1>5, <1>6, <1>7, <1>8, <1>9, <1>10, <1>11,
           <1>12, <1>13 DEF Next, RkeStep

-----------------------------------------------------------------------------
(* Hosts and clusters.                                                      *)

LEMMA HostInit == Init => HostInv /\ EtcdInv /\ NamesInv
<1> SUFFICES ASSUME Init PROVE HostInv /\ EtcdInv /\ NamesInv
  OBVIOUS
<1>1. IsFiniteSet({}) /\ {} \notin Configs
  BY FS_EmptySet, EtcdAssumption
<1>2. HostInv
  BY <1>1 DEF Init, HostInv, NoContainer
<1>3. EtcdInv
  BY <1>1 DEF Init, EtcdInv
<1>4. NamesInv
  BY DEF Init, NamesInv, Serving
<1> QED BY <1>2, <1>3, <1>4

LEMMA HostStep ==
  TypeOK /\ ProcInv /\ HostInv /\ EtcdInv /\ [Next]_vars => HostInv' /\ EtcdInv'
<1> SUFFICES ASSUME TypeOK, ProcInv, HostInv, EtcdInv, [Next]_vars
             PROVE  HostInv' /\ EtcdInv'
  OBVIOUS
<1> USE DEF hostVars, etcdVars, procVars
<1>1. ASSUME UNCHANGED <<ctr, data, up, memb, announced, saved>>
      PROVE  HostInv' /\ EtcdInv'
  BY <1>1 DEF HostInv, EtcdInv, IsMember, MemberOn
<1>2. CASE RemoveEtcdMember
  <2> DEFINE h == First(todo)
             through == {e \in conf : Answers(e) /\ Named(e, h) # {}}
             f == First(through)
  <2>1. CASE UNCHANGED <<memb, up>>
    BY <1>1, <1>2, <2>1 DEF RemoveEtcdMember
  <2>2. CASE /\ through # {}
             /\ memb' = [memb EXCEPT ![data[f].cluster] = @ \ Named(f, h)]
             /\ up' = IF data[h].cluster = data[f].cluster THEN up \ {h} ELSE up
    <3>1. h \in todo /\ h \in Hosts /\ h \notin conf
      BY <1>2, HeadFacts DEF RemoveEtcdMember, ProcInv
    <3>2. f \in conf /\ f \in Hosts /\ f \in up
      <4>1. through \in SUBSET Hosts
        BY DEF TypeOK
      <4>2. f \in through
        BY <2>2, <4>1, FirstFacts
      <4> QED BY <4>1, <4>2 DEF Answers
    <3> DEFINE c == data[f].cluster
    <3>3. c \in Configs /\ MemberOn(f) \in memb[c]
      BY <3>2 DEF HostInv, IsMember
    <3>4. \A m \in Named(f, h) : m \in memb[c] /\ m.host = h
      BY DEF Named
    <3>5. MemberOn(f).host = f
      BY DEF MemberOn, Member
    <3>6. MemberOn(f) \in memb'[c] /\ memb'[c] \subseteq memb[c]
      BY <2>2, <3>1, <3>2, <3>3, <3>4, <3>5 DEF TypeOK
    <3>7. \A d \in Configs : d # c => memb'[d] = memb[d]
      BY <2>2, <3>3 DEF TypeOK
    <3>8. \A x \in up' : x \in Hosts /\ x \in up /\
                         (data[x].cluster = c => MemberOn(x) \notin Named(f, h))
      <4>1. \A x \in Hosts : MemberOn(x).host = x
        BY DEF MemberOn, Member
      <4> QED BY <2>2, <3>4, <4>1 DEF TypeOK
    <3>9. UNCHANGED <<ctr, data, announced, saved>>
      BY <1>2 DEF RemoveEtcdMember
    <3>10. HostInv'
      <4>1. \A x \in up' : IsMember(x)'
        <5> SUFFICES ASSUME NEW x \in up' PROVE IsMember(x)'
          OBVIOUS
        <5>1. /\ x \in up /\ x \in Hosts
              /\ data[x].cluster = c => MemberOn(x) \notin Named(f, h)
          BY <3>8
        <5>2. data[x] # NoData /\ MemberOn(x) \in memb[data[x].cluster]
          BY <5>1 DEF HostInv, IsMember
        <5>3. data[x].cluster \in Configs
          BY <5>1, <5>2 DEF HostInv
        <5>4. MemberOn(x)' = MemberOn(x) /\ data'[x] = data[x]
          BY <3>9 DEF MemberOn
        <5>5. CASE data[x].cluster = c
          <6>1. memb'[c] = memb[c] \ Named(f, h)
            BY <2>2, <3>3 DEF TypeOK
          <6> QED BY <5>1, <5>2, <5>4, <5>5, <6>1 DEF IsMember
        <5>6. CASE data[x].cluster # c
          BY <3>7, <5>2, <5>3, <5>4, <5>6 DEF IsMember
        <5> QED BY <5>5, <5>6
      <4>2. \A d \in Configs : memb[d] # {} => memb'[d] # {}
        BY <3>6, <3>7
      <4> QED BY <3>8, <3>9, <4>1, <4>2 DEF HostInv
    <3>11. EtcdInv'
      <4>1. \A d \in Configs : /\ memb'[d] \in SUBSET memb[d]
                               /\ memb'[d] = {} => memb[d] = {}
        BY <3>6, <3>7
      <4>2. \A d \in Configs : IsFiniteSet(memb'[d])
        BY <4>1, FS_Subset DEF EtcdInv
      <4> QED BY <3>9, <4>1, <4>2 DEF EtcdInv
    <3> QED BY <3>10, <3>11
  <2>3. UNCHANGED <<memb, up>> \/
        (/\ through # {}
         /\ memb' = [memb EXCEPT ![data[f].cluster] = @ \ Named(f, h)]
         /\ up' = IF data[h].cluster = data[f].cluster THEN up \ {h} ELSE up)
    BY <1>2 DEF RemoveEtcdMember
  <2> QED BY <2>1, <2>2, <2>3

<1>3. CASE ReconcileHost
  <2> DEFINE h == First(todo)
  <2>1. PICK k \in 0..2 :
          /\ ctr' = IF k < 1 THEN ctr ELSE [ctr EXCEPT ![h] = NoContainer]
          /\ data' = IF k < 2 THEN data ELSE [data EXCEPT ![h] = NoData]
          /\ up' = IF k < 1 THEN up ELSE up \ {h}
    BY <1>3 DEF ReconcileHost
  <2>2. h \in Hosts
    BY <1>3, HeadFacts DEF ReconcileHost, ProcInv
  <2>3. NoData.cluster \notin Configs /\ NoContainer.state # "new"
    BY EtcdAssumption DEF NoData, NoContainer
  <2>4. \A x \in Hosts :
           /\ ctr'[x] \in {ctr[x], NoContainer} /\ data'[x] \in {data[x], NoData}
           /\ x \in up' => x \in up /\ ctr'[x] = ctr[x] /\ data'[x] = data[x]
    <3> HIDE DEF h
    <3>1. (ctr'[h] = ctr[h] /\ data'[h] = data[h]) \/ h \notin up'
      BY <2>1
    <3> QED BY <2>1, <2>2, <3>1 DEF TypeOK
  <2>5. \A c \in Configs :
           /\ (\E x \in Hosts : data'[x].cluster = c) =>
                 /\ memb'[c] = memb[c] /\ announced'[c] = announced[c]
                 /\ saved'[c] = saved[c]
           /\ ~(\E x \in Hosts : data'[x].cluster = c) =>
                 memb'[c] = {} /\ announced'[c] = {} /\ saved'[c] = {}
    BY <1>3 DEF ReconcileHost, Remaining
  <2>6. \A x \in Hosts : data'[x] # NoData =>
           /\ data'[x] = data[x] /\ data[x].cluster \in Configs
           /\ memb'[data'[x].cluster] = memb[data[x].cluster]
    BY <2>4, <2>5 DEF HostInv
  <2>7. HostInv'
    <3> SUFFICES ASSUME NEW x \in Hosts
                 PROVE  /\ ctr'[x] # NoContainer =>
                              /\ x \in ctr'[x].init
                              /\ ctr'[x].state \in {"new", "existing"}
                        /\ ctr'[x].state = "new" => ctr'[x].init \in Configs
                        /\ x \in up' => IsMember(x)' /\ ctr'[x].started
                        /\ data'[x] # NoData =>
                              /\ data'[x].cluster \in Configs
                              /\ memb'[data'[x].cluster] # {}
      BY DEF HostInv
    <3>1. x \in up' => IsMember(x)' /\ ctr'[x].started
      <4> SUFFICES ASSUME x \in up' PROVE IsMember(x)' /\ ctr'[x].started
        OBVIOUS
      <4>1. /\ x \in up /\ ctr'[x] = ctr[x] /\ data'[x] = data[x]
            /\ data[x] # NoData /\ MemberOn(x) \in memb[data[x].cluster]
            /\ ctr[x].started
        BY <2>4 DEF HostInv, IsMember
      <4> QED BY <4>1, <2>6 DEF IsMember, MemberOn
    <3> QED BY <2>3, <2>4, <2>6, <3>1 DEF HostInv
  <2>8. EtcdInv'
    <3>1. \A c \in Configs : memb'[c] \in {memb[c], {}}
      BY <2>5
    <3>2. \A c \in Configs : IsFiniteSet(memb'[c])
      BY <3>1, FS_EmptySet DEF EtcdInv
    <3> QED BY <2>5, <3>1, <3>2 DEF EtcdInv
  <2> QED BY <2>7, <2>8
<1>4. CASE AddEtcdMember
  <2> DEFINE h == First(todo)
             through == {e \in conf : /\ Answers(e)
                                      /\ h \notin HostsOf(memb[data[e].cluster])}
             c == data[First(through)].cluster
  <2>1. UNCHANGED <<ctr, data, up, announced, saved>>
    BY <1>4 DEF AddEtcdMember
  <2>2. CASE UNCHANGED memb
    BY <1>1, <2>1, <2>2
  <2>3. CASE /\ through # {}
             /\ memb' = [memb EXCEPT ![c] = @ \cup {Member(h, ids + 1)}]
    <3>1. First(through) \in through /\ through \subseteq Hosts
      BY <2>3, FirstFacts DEF TypeOK
    <3>2. c \in Configs /\ memb[c] # {} /\ h \notin HostsOf(memb[c])
      BY <3>1 DEF Answers, HostInv, IsMember
    <3>3. \A m \in memb[c] : m.host # h
      BY <3>2 DEF HostsOf
    <3>4. Member(h, ids + 1).host = h
      BY DEF Member
    <3> HIDE DEF c, h, through
    <3>5. memb'[c] = memb[c] \cup {Member(h, ids + 1)}
      BY <2>3, <3>2 DEF TypeOK
    <3>6. \A d \in Configs : d # c => memb'[d] = memb[d]
      BY <2>3 DEF TypeOK
    <3>7. IsFiniteSet(memb'[c])
      BY <3>2, <3>5, FS_AddElement DEF EtcdInv
    <3>8. \A m, n \in memb'[c] : m.host = n.host => m = n
      BY <3>2, <3>3, <3>4, <3>5 DEF EtcdInv
    <3>9. \A d \in Configs : memb[d] \subseteq memb'[d]
      BY <3>5, <3>6
    <3>10. EtcdInv'
      BY <2>1, <3>2, <3>6, <3>7, <3>8, <3>9 DEF EtcdInv
    <3>11. \A x \in up : IsMember(x)'
      BY <2>1, <3>9 DEF TypeOK, HostInv, IsMember, MemberOn
    <3>12. HostInv'
      BY <2>1, <3>9, <3>11 DEF HostInv
    <3> QED BY <3>10, <3>12
  <2>4. UNCHANGED memb \/
        (through # {} /\ memb' = [memb EXCEPT ![c] = @ \cup {Member(h, ids + 1)}])
    BY <1>4 DEF AddEtcdMember
  <2> QED BY <2>2, <2>3, <2>4
<1>5. ASSUME NEW h \in Hosts, NEW S \in SUBSET Hosts, h \in S,
             h \in existing \/ S \in Configs,
             RunContainer(h, EtcdConfig(h, S)),
             UNCHANGED <<data, etcdVars, endpoints>>
      PROVE  HostInv' /\ EtcdInv'
  <2>1. /\ \A x \in Hosts : x # h => ctr'[x] = ctr[x]
        /\ up' \subseteq up
        /\ h \in up => (h \in up' <=> ctr'[h] = ctr[h])
        /\ \/ ctr'[h] = NoContainer
           \/ ctr'[h].init = S /\ ctr'[h].state = EtcdConfig(h, S).state
           \/ /\ ctr[h] # NoContainer
              /\ ctr'[h].init = ctr[h].init /\ ctr'[h].state = ctr[h].state
    BY <1>5, RunEffect
  <2>2. /\ EtcdConfig(h, S).state \in {"new", "existing"}
        /\ EtcdConfig(h, S).state = "new" => S \in Configs
        /\ NoContainer.state # "new"
    BY <1>5 DEF EtcdConfig, NoContainer
  <2>3. \A x \in Hosts : IsMember(x)' <=> IsMember(x)
    BY <1>5 DEF IsMember, MemberOn
  <2>4. HostInv'
    BY <1>5, <2>1, <2>2, <2>3 DEF HostInv
  <2>5. EtcdInv'
    BY <1>5 DEF EtcdInv
  <2> QED BY <2>4, <2>5
<1>6. CASE ReloadHost
  <2>1. First(list) \in ReadyHosts /\ First(list) \in existing /\ First(list) \in Hosts
    BY <1>6, HeadFacts DEF ReloadHost, ProcInv
  <2> QED BY <1>5, <1>6, <2>1, HeadFacts DEF ReloadHost
<1>7. CASE RunEtcdPlane
  <2>1. First(list) \in conf /\ First(list) \in Hosts /\ conf \in Configs
    BY <1>7, HeadFacts DEF RunEtcdPlane, ProcInv
  <2> QED BY <1>5, <1>7, <2>1 DEF RunEtcdPlane, TypeOK
<1>8. CASE SaveClusterState
  <2>1. UNCHANGED <<ctr, data, up, memb, announced>>
    BY <1>8 DEF SaveClusterState
  <2>2. CASE UNCHANGED saved
    BY <1>1, <2>1, <2>2
  <2>3. ASSUME NEW h \in endpoints, Answers(h),
               saved' = [saved EXCEPT ![data[h].cluster] = conf]
        PROVE  HostInv' /\ EtcdInv'
    <3>1. data[h].cluster \in Configs /\ memb[data[h].cluster] # {}
      BY <2>3 DEF Answers, HostInv, IsMember, TypeOK
    <3>2. \A c \in Configs : c # data[h].cluster => saved'[c] = saved[c]
      BY <2>3 DEF TypeOK
    <3>3. EtcdInv'
      BY <2>1, <3>1, <3>2 DEF EtcdInv
    <3>4. HostInv'
      BY <2>1 DEF HostInv, IsMember, MemberOn
    <3> QED BY <3>3, <3>4
  <2> QED BY <1>8, <2>2, <2>3 DEF SaveClusterState
<1>9. ASSUME NEW h \in Hosts, Boot(h) PROVE HostInv' /\ EtcdInv'
  <2>1. PICK d \in BootData(h) :
          /\ d.cluster \in Configs
          /\ data' = [data EXCEPT ![h] = d]
          /\ \A c \in Configs :
                memb'[c] = IF c = d.cluster /\ memb[c] = {} THEN Founders(c)
                           ELSE memb[c]
          /\ up' = IF Member(h, d.id) \in memb'[d.cluster] THEN up \cup {h} ELSE up
          /\ \A c \in Configs : c # d.cluster => announced'[c] = announced[c]
    BY <1>9, BootEffect
  <2>2. /\ data[h] # NoData => d = data[h]
        /\ ctr[h].started /\ h \notin up /\ UNCHANGED <<ctr, saved>>
    BY <1>9, BootFacts DEF Boot, CanBoot
  <2>3. d # NoData /\ data'[h] = d /\ \A x \in Hosts : x # h => data'[x] = data[x]
    BY <2>1, EtcdAssumption DEF NoData, TypeOK
  <2>4. \A c \in Configs : memb[c] # {} => memb'[c] = memb[c]
    BY <2>1
  <2>5. memb'[d.cluster] # {}
    BY <2>1, FoundersFacts
  <2>6. \A x \in up' : IsMember(x)'
    <3>1. ASSUME NEW x \in up, x # h PROVE IsMember(x)'
      <4>1. x \in Hosts
        BY DEF TypeOK
      <4>2. data[x] # NoData /\ MemberOn(x) \in memb[data[x].cluster] /\
            data[x].cluster \in Configs
        BY <4>1 DEF HostInv, IsMember
      <4> QED BY <2>3, <2>4, <3>1, <4>1, <4>2 DEF IsMember, MemberOn
    <3>2. h \in up' => IsMember(h)'
      <4>1. h \in up' => Member(h, d.id) \in memb'[d.cluster]
        BY <2>1, <2>2
      <4> QED BY <2>3, <4>1 DEF IsMember, MemberOn
    <3> QED BY <2>1, <3>1, <3>2
  <2>7. \A x \in Hosts : data'[x] # NoData =>
           data'[x].cluster \in Configs /\ memb'[data'[x].cluster] # {}
    BY <2>1, <2>3, <2>4, <2>5 DEF HostInv
  <2>8. HostInv'
    <3>1. \A x \in up' : ctr[x].started /\ x \in Hosts
      BY <2>1, <2>2 DEF HostInv, TypeOK
    <3> QED BY <2>2, <2>6, <2>7, <3>1 DEF HostInv
  <2>9. EtcdInv'
    <3> SUFFICES ASSUME NEW c \in Configs
                 PROVE  /\ IsFiniteSet(memb'[c])
                        /\ \A m, n \in memb'[c] : m.host = n.host => m = n
                        /\ memb'[c] # {} => \E x \in Hosts : data'[x].cluster = c
                        /\ memb'[c] = {} => announced'[c] = {} /\ saved'[c] = {}
      BY DEF EtcdInv
    <3>1. memb'[c] \in {memb[c], Founders(c)}
      BY <2>1
    <3>2. /\ IsFiniteSet(memb'[c])
          /\ \A m, n \in memb'[c] : m.host = n.host => m = n
      BY <3>1, FoundersFacts DEF EtcdInv
    <3>3. memb'[c] # {} => \E x \in Hosts : data'[x].cluster = c
      <4>1. CASE c = d.cluster
        BY <2>3, <4>1
      <4>2. CASE c # d.cluster
        <5>1. memb'[c] # {} => \E x \in Hosts : data[x].cluster = c
          BY <2>1, <4>2 DEF EtcdInv
        <5>2. ASSUME data[h].cluster = c PROVE FALSE
          <6>1. data[h] = NoData
            BY <2>2, <4>2, <5>2
          <6> QED BY <5>2, <6>1, EtcdAssumption DEF NoData
        <5> QED BY <2>3, <5>1, <5>2
      <4> QED BY <4>1, <4>2
    <3>4. memb'[c] = {} => announced'[c] = {} /\ saved'[c] = {}
      <4>1. memb'[c] = {} => c # d.cluster /\ memb[c] = {}
        BY <2>1, <2>5
      <4> QED BY <2>1, <2>2, <4>1 DEF EtcdInv
    <3> QED BY <3>2, <3>3, <3>4
  <2> QED BY <2>8, <2>9
<1>10. ASSUME NEW c \in Configs, StartUp(c) PROVE HostInv' /\ EtcdInv'
  BY <1>1, <1>10 DEF StartUp
<1>11. CASE GetClusterState
  BY <1>1, <1>11 DEF GetClusterState
<1>12. CASE Deleted \/ Added \/ RunKubeAPI \/ CheckHealth \/ Abort
  BY <1>1, <1>12 DEF Deleted, Added, RunKubeAPI, CheckHealth, Abort
<1>13. CASE UNCHANGED vars
  BY <1>1, <1>13 DEF vars
<1> QED BY <1>2, <1>3, <1>4, <1>6, <1>7, <1>8, <1>9, <1>10, <1>11, <1>12, <1>13
        DEF Next, RkeStep

LEMMA IdsInit == Init => IdsInv
BY DEF Init, IdsInv, NoData

LEMMA IdsStep ==
  TypeOK /\ ProcInv /\ HostInv /\ EtcdInv /\ IdsInv /\ [Next]_vars => IdsInv'
<1> SUFFICES ASSUME TypeOK, ProcInv, HostInv, EtcdInv, IdsInv, [Next]_vars
             PROVE  IdsInv'
  OBVIOUS
<1> USE DEF hostVars, etcdVars, procVars
<1>1. ASSUME /\ \A h \in Hosts : data'[h] \in {data[h], NoData}
             /\ \A c \in Configs : memb'[c] \subseteq memb[c]
             /\ ids' = ids
      PROVE  IdsInv'
  <2>1. NoData.id = 0
    BY DEF NoData
  <2> QED BY <1>1, <2>1 DEF IdsInv, TypeOK
<1>2. ASSUME UNCHANGED <<data, memb, ids>> PROVE IdsInv'
  BY <1>1, <1>2
<1>3. CASE RemoveEtcdMember
  BY <1>1, <1>3 DEF RemoveEtcdMember, TypeOK
<1>4. CASE ReconcileHost
  <2>1. First(todo) \in Hosts
    BY <1>4, HeadFacts DEF ReconcileHost, ProcInv
  <2>2. \A h \in Hosts : data'[h] \in {data[h], NoData}
    BY <1>4, <2>1 DEF ReconcileHost, TypeOK
  <2>3. \A c \in Configs : memb'[c] \subseteq memb[c]
    BY <1>4 DEF ReconcileHost, Remaining
  <2> QED BY <1>1, <1>4, <2>2, <2>3 DEF ReconcileHost
<1>5. CASE AddEtcdMember
  <2>1. CASE UNCHANGED <<memb, ids>>
    BY <1>2, <1>5, <2>1 DEF AddEtcdMember
  <2>2. ASSUME NEW c, ids' = ids + 1,
               memb' = [memb EXCEPT ![c] = @ \cup {Member(First(todo), ids + 1)}]
        PROVE  IdsInv'
    <3>1. \A d \in Configs : \A m \in memb'[d] : m \in memb[d] \/ m.id = ids + 1
      BY <2>2 DEF TypeOK, Member
    <3>2. \A d \in Configs : \A m \in memb[d] : m.id \in Nat /\ m.id <= ids
      BY DEF TypeOK, IdsInv
    <3>3. \A h \in Hosts : data[h].id \in Nat /\ data[h].id <= ids
      BY DEF TypeOK, IdsInv
    <3> QED BY <1>5, <2>2, <3>1, <3>2, <3>3 DEF AddEtcdMember, IdsInv, TypeOK
  <2> QED BY <1>5, <2>1, <2>2 DEF AddEtcdMember
<1>6. ASSUME NEW h \in Hosts, Boot(h) PROVE IdsInv'
  <2>1. PICK d \in BootData(h) :
          /\ data' = [data EXCEPT ![h] = d]
          /\ \A c \in Configs :
                memb'[c] = IF c = d.cluster /\ memb[c] = {} THEN Founders(c)
                           ELSE memb[c]
          /\ d.cluster \in Configs
    BY <1>6, BootEffect
  <2>2. d.id <= ids
    <3>1. \/ d = data[h] \/ d.id = 0 \/ Member(h, d.id) \in memb[d.cluster]
      BY <1>6, BootFacts DEF Boot
    <3>2. Member(h, d.id).id = d.id
      BY DEF Member
    <3> QED BY <2>1, <3>1, <3>2 DEF IdsInv, TypeOK
  <2>3. \A c \in Configs : \A m \in Founders(c) : m.id = 0
    BY DEF Founders, Member
  <2>4. \A c \in Configs : \A m \in memb'[c] : m.id <= ids
    BY <2>1, <2>3 DEF IdsInv, TypeOK
  <2>5. \A x \in Hosts : data'[x].id <= ids
    BY <2>1, <2>2 DEF IdsInv, TypeOK
  <2>6. ids' = ids
    BY <1>6 DEF Boot
  <2> QED BY <2>4, <2>5, <2>6 DEF IdsInv
<1>7. ASSUME NEW c \in Configs, StartUp(c) PROVE IdsInv'
  BY <1>2, <1>7 DEF StartUp
<1>8. CASE GetClusterState \/ Deleted \/ Added \/ RunKubeAPI \/ CheckHealth
           \/ Abort \/ SaveClusterState \/ ReloadHost \/ RunEtcdPlane
  BY <1>2, <1>8 DEF GetClusterState, Deleted, Added, RunKubeAPI, CheckHealth,
     Abort, SaveClusterState, ReloadHost, RunEtcdPlane
<1>9. CASE UNCHANGED vars
  BY <1>2, <1>9 DEF vars
<1> QED BY <1>3, <1>4, <1>5, <1>6, <1>7, <1>8, <1>9 DEF Next, RkeStep

-----------------------------------------------------------------------------
(* One cluster, and what rke's stages say of it.                            *)

\* The hypotheses of the lemmas below: a run whose view of etcd is right.
Right ==
    TypeOK /\ ProcInv /\ HostInv /\ EtcdInv /\ IdsInv /\ ViewInv /\ ~hasty

\* There is one membership, and hosts with data belong to its cluster.
LEMMA OneMembership ==
  ASSUME Right, NEW c \in Configs, memb[c] # {}
  PROVE  /\ \A d \in Configs : memb[d] # {} => d = c
         /\ \A h \in Hosts \ Fresh : data[h].cluster = c
         /\ \E h \in Hosts \ Fresh : data[h].cluster = c
<1>1. NoData.cluster \notin Configs
  BY EtcdAssumption DEF NoData
<1>2. \A d \in Configs : memb[d] # {} =>
         \E h \in Hosts \ Fresh : data[h].cluster = d
  BY <1>1 DEF Right, EtcdInv, Fresh
<1>3. \A g, h \in Hosts \ Fresh : data[g].cluster = data[h].cluster
  BY DEF Right, ViewInv, OneCluster, Claims
<1> QED BY <1>2, <1>3

LEMMA HostsOfFacts ==
  ASSUME NEW M, NEW m
  PROVE  /\ HostsOf(M \cup {m}) = HostsOf(M) \cup {m.host}
         /\ HostsOf({}) = {}
         /\ m \in M => m.host \in HostsOf(M)
         /\ M # {} => HostsOf(M) # {}
BY DEF HostsOf

LEMMA NoContainerFacts ==
  NoContainer.state = "none" /\ ~NoContainer.started /\ NoContainer.init = {}
BY DEF NoContainer

LEMMA StartUpView ==
  ASSUME Right, NEW c \in Configs, StartUp(c)
  PROVE  ViewInv'
<1> USE DEF StartUp, hostVars, etcdVars, Right, ViewInv
<1>1. \A h \in Hosts : CanBoot(h)' <=> CanBoot(h)
  BY SameBoot
<1>2. Fresh' = Fresh /\ Claims' = Claims
  BY DEF Fresh, Claims
<1>3. IdleInv'
  BY <1>1, <1>2 DEF IdleInv, HostsOf, Fresh
<1>4. OneCluster'
  BY <1>2 DEF OneCluster
<1>5. FirstRun' /\ MembersInv' /\ FlagsInv' /\ PeerInv'
  BY DEF FirstRun, LaterRun, MembersInv, FlagsInv, PeerInv
<1> QED BY <1>3, <1>4, <1>5

LEMMA GetClusterStateView ==
  ASSUME Right, GetClusterState, ~astray'
  PROVE  ViewInv'
<1> USE DEF Right, ViewInv
<1>1. /\ pc = "state" /\ Shared(cur') /\ existing = {} /\ Settled
      /\ UNCHANGED <<ctr, data, up, memb, announced, saved, conf, existing>>
  BY DEF GetClusterState, ProcInv, hostVars, etcdVars
<1>2. Fresh' = Fresh /\ Claims' = Claims
  BY <1>1 DEF Fresh, Claims
<1>3. CASE cur' = {}
  <2>1. pc' = "run" /\ list' = conf
    BY <1>3 DEF GetClusterState
  <2>2. \A c \in Configs : HostsOf(memb[c]) = {}
    BY <1>1, <1>3 DEF Shared
  <2>3. \A c \in Configs : memb[c] = {}
    BY <2>2, HostsOfFacts
  <2>4. \A c \in Configs : announced[c] = {} /\ saved[c] = {}
    BY <2>3 DEF EtcdInv
  <2>5. Fresh = Hosts
    BY <2>3 DEF Fresh, HostInv
  <2>6. \A h \in Hosts : ctr[h] = NoContainer /\ ctr[h].state # "new"
    BY <1>1, <1>3, NoContainerFacts DEF Shared
  <2>7. Claims = {}
    BY <2>5, <2>6 DEF Claims
  <2>8. OneCluster'
    BY <1>1, <1>2, <2>4, <2>6, <2>7 DEF OneCluster, Fresh
  <2>9. FirstRun'
    BY <1>1, <1>2, <2>1, <2>3, <2>4, <2>6, <2>7 DEF FirstRun, Fresh
  <2>10. IdleInv' /\ MembersInv' /\ FlagsInv' /\ PeerInv'
    BY <1>3, <2>1 DEF IdleInv, LaterRun, MembersInv, FlagsInv, PeerInv
  <2> QED BY <2>8, <2>9, <2>10
<1>4. CASE cur' # {}
  <2>1. pc' = "delete" /\ todo' = cur' \ conf
    BY <1>4 DEF GetClusterState
  <2>2. PICK c \in Configs : saved[c] = cur' /\ memb[c] # {}
    <3>1. PICK h \in endpoints : Answers(h) /\ cur' = saved[data[h].cluster]
      BY <1>4 DEF GetClusterState
    <3> QED BY <3>1 DEF Answers, HostInv, IsMember, TypeOK
  <2>3. \A d \in Configs : memb[d] # {} => d = c
    BY <2>2, OneMembership
  <2>4. \A d \in Configs : d # c => HostsOf(memb[d]) = {}
    BY <2>3, HostsOfFacts
  <2>5. HostsOf(memb[c]) = cur'
    BY <1>1, <2>4 DEF Shared
  <2>6. \A h \in Fresh : IF h \in cur' THEN CanBoot(h) ELSE ctr[h] = NoContainer
    BY <1>1, <1>4, <2>2, <2>5 DEF IdleInv
  <2>7. \A h \in Fresh : h \notin cur' /\ ctr[h] = NoContainer
    BY <1>1, <2>6 DEF Settled, Fresh
  <2>8. (cur' \cap conf) \cup todo' = cur'
    BY <2>1
  <2>9. MembersInv'
    <3>1. \A d \in Configs : memb'[d] # {} =>
             saved'[d] = cur' /\ HostsOf(memb[d]) = Membership'
      BY <1>1, <2>1, <2>2, <2>3, <2>5, <2>8 DEF Membership
    <3> QED BY <1>1, <1>2, <2>1, <2>7, <3>1 DEF MembersInv, HostsOf
  <2>10. FlagsInv'
    BY <1>1, <1>2, <2>1, <2>7 DEF FlagsInv
  <2>11. OneCluster'
    <3>1. \A h \in Fresh : ctr'[h].state # "new"
      BY <1>1, <2>7, NoContainerFacts
    <3> QED BY <1>1, <1>2, <2>1, <3>1 DEF OneCluster
  <2>12. IdleInv' /\ FirstRun' /\ PeerInv'
    BY <2>1 DEF IdleInv, FirstRun, PeerInv
  <2> QED BY <2>9, <2>10, <2>11, <2>12
<1> QED BY <1>3, <1>4

LEMMA RemoveEtcdMemberView ==
  ASSUME Right, RemoveEtcdMember, ~astray'
  PROVE  ViewInv'
<1> USE DEF Right, ViewInv
<1> DEFINE h == First(todo)
           through == {e \in conf : Answers(e) /\ Named(e, h) # {}}
           f == First(through)
           c == data[f].cluster
<1>1. /\ pc = "delete" /\ todo # {} /\ through # {}
      /\ memb' = [memb EXCEPT ![c] = @ \ Named(f, h)]
      /\ UNCHANGED <<ctr, data, announced, saved, conf, cur>>
      /\ \/ pc' = "delete_node" /\ todo' = todo
         \/ pc' = "delete" /\ todo' = todo \ {h}
  BY DEF RemoveEtcdMember, Goto
<1>2. f \in conf /\ f \in up /\ Named(f, h) # {}
  <2>1. through \in SUBSET Hosts
    BY DEF TypeOK
  <2>2. f \in through
    BY <1>1, <2>1, FirstFacts
  <2> QED BY <2>2 DEF Answers
<1>3. c \in Configs /\ MemberOn(f) \in memb[c] /\ f \in Hosts
  BY <1>2 DEF TypeOK, HostInv, IsMember
<1>4. h \in todo /\ todo \subseteq cur \ conf
  BY <1>1, HeadFacts DEF ProcInv
<1> HIDE DEF h, through, f
<1>5. \A d \in Configs : memb[d] # {} => d = c
  BY <1>3, OneMembership
<1>6. HostsOf(memb[c]) = (cur \cap conf) \cup todo /\ saved[c] = cur /\ cur # {}
  BY <1>1, <1>3 DEF MembersInv, LaterRun, Membership, ProcInv
<1>7. memb'[c] = memb[c] \ Named(f, h)
  BY <1>1, <1>3 DEF TypeOK
<1>8. HostsOf(memb'[c]) = HostsOf(memb[c]) \ {h}
  <2>1. Named(f, h) \subseteq {m \in memb[c] : m.host = h}
    BY DEF Named
  <2>2. \A m \in memb[c] : m.host = h => m \in Named(f, h)
    BY <1>2, <1>3, <2>1 DEF EtcdInv
  <2>3. memb'[c] = {m \in memb[c] : m.host # h}
    BY <1>7, <2>1, <2>2
  <2> QED BY <2>3 DEF HostsOf
<1>9. f \in cur \cap conf
  <2>1. MemberOn(f).host = f
    BY DEF MemberOn, Member
  <2>2. f \in HostsOf(memb[c])
    BY <1>3, <2>1, HostsOfFacts
  <2> QED BY <1>2, <1>4, <1>6, <2>2
<1>10. Fresh' = Fresh /\ Claims' = Claims
  BY <1>1 DEF Fresh, Claims
<1>11. \A x \in Fresh : ctr'[x] = NoContainer /\ ctr'[x].state # "new"
  BY <1>1, <1>6, NoContainerFacts DEF FlagsInv, LaterRun
<1>12. MembersInv'
  <2>1. Membership' = HostsOf(memb'[c])
    BY <1>1, <1>4, <1>6, <1>8 DEF Membership, h
  <2>2. \A d \in Configs : memb'[d] # {} => d = c
    BY <1>1, <1>3, <1>5 DEF TypeOK
  <2>3. Fresh \cap todo = {} /\ Fresh \cap cur \cap conf = {}
    BY <1>1, <1>6 DEF MembersInv, LaterRun
  <2> QED BY <1>1, <1>6, <1>9, <1>10, <2>1, <2>2, <2>3 DEF MembersInv, HostsOf
<1>13. FlagsInv' /\ OneCluster'
  BY <1>1, <1>10, <1>11 DEF FlagsInv, OneCluster
<1>14. IdleInv' /\ FirstRun' /\ PeerInv'
  BY <1>1 DEF IdleInv, FirstRun, PeerInv
<1> QED BY <1>12, <1>13, <1>14

LEMMA ReconcileHostView ==
  ASSUME Right, ReconcileHost
  PROVE  ViewInv'
<1> USE DEF Right, ViewInv
<1> DEFINE h == First(todo)
<1>1. /\ pc = "delete_node" /\ pc' = "delete" /\ todo' = todo \ {h}
      /\ UNCHANGED <<conf, cur, existing>> /\ cur # {}
      /\ h \in todo /\ todo \subseteq cur \ conf
  BY HeadFacts DEF ReconcileHost, ProcInv
<1>2. \A x \in Hosts :
         /\ x # h => ctr'[x] = ctr[x] /\ data'[x] = data[x]
         /\ data'[x] \in {data[x], NoData}
         /\ ctr'[x] = ctr[x] \/ ctr'[x] = NoContainer
         /\ data'[x] # data[x] => ctr'[x] = NoContainer
  <2>1. PICK k \in 0..2 :
          /\ ctr' = IF k < 1 THEN ctr ELSE [ctr EXCEPT ![h] = NoContainer]
          /\ data' = IF k < 2 THEN data ELSE [data EXCEPT ![h] = NoData]
    BY DEF ReconcileHost
  <2>2. h \in Hosts
    BY <1>1 DEF TypeOK
  <2> HIDE DEF h
  <2>3. CASE k < 1
    BY <2>1, <2>3
  <2>4. CASE ~(k < 1) /\ k < 2
    BY <2>1, <2>2, <2>4 DEF TypeOK
  <2>5. CASE ~(k < 1) /\ ~(k < 2)
    BY <2>1, <2>2, <2>5 DEF TypeOK
  <2> QED BY <2>3, <2>4, <2>5
<1> HIDE DEF h
<1>3. \A c \in Configs : /\ memb'[c] # {} => memb'[c] = memb[c]
                         /\ saved'[c] \in {saved[c], {}}
                         /\ memb'[c] # {} => saved'[c] = saved[c]
  <2>1. \A c \in Configs : \/ memb'[c] = memb[c] /\ saved'[c] = saved[c]
                           \/ memb'[c] = {} /\ saved'[c] = {}
    BY DEF ReconcileHost, Remaining
  <2> QED BY <2>1
<1>4. Fresh \subseteq Fresh' /\ Fresh' \subseteq Fresh \cup {h}
  BY <1>2 DEF Fresh
<1>5. Fresh \cap todo = {} /\ Fresh \cap cur \cap conf = {}
  BY <1>1 DEF MembersInv, LaterRun
<1>6. \A x \in Fresh' : ctr'[x] = NoContainer /\ ctr'[x].state # "new"
  <2>1. \A x \in Fresh : ctr[x] = NoContainer
    BY <1>1 DEF FlagsInv, LaterRun
  <2>2. h \in Fresh' => data'[h] # data[h]
    BY <1>1, <1>5 DEF Fresh
  <2>3. \A x \in Fresh' : ctr'[x] = NoContainer
    <3>1. Fresh' \subseteq Hosts
      BY DEF Fresh
    <3> QED BY <1>2, <1>4, <2>1, <2>2, <3>1
  <2> QED BY <2>3, NoContainerFacts
<1>7. Claims' \subseteq Claims
  <2>1. Claims' = {data'[x].cluster : x \in Hosts \ Fresh'}
    BY <1>6 DEF Claims
  <2>2. \A x \in Hosts \ Fresh' : x \in Hosts \ Fresh /\ data'[x] = data[x]
    BY <1>2, <1>4 DEF Fresh
  <2> QED BY <2>1, <2>2 DEF Claims
<1>8. MembersInv'
  <2>1. Membership' = Membership
    BY <1>1 DEF Membership, h
  <2>2. \A c \in Configs : memb'[c] # {} =>
           saved'[c] = cur /\ HostsOf(memb'[c]) = Membership
    <3> SUFFICES ASSUME NEW c \in Configs, memb'[c] # {}
                 PROVE  saved'[c] = cur /\ HostsOf(memb'[c]) = Membership
      OBVIOUS
    <3>1. memb'[c] = memb[c] /\ saved'[c] = saved[c]
      BY <1>3
    <3> QED BY <1>1, <3>1 DEF MembersInv, LaterRun
  <2>3. cur \cap conf # {}
    BY <1>1 DEF MembersInv, LaterRun
  <2>4. Fresh' \cap cur \cap conf = {} /\ Fresh' \cap todo' = {}
    BY <1>1, <1>4, <1>5
  <2>5. \A c \in Configs : HostsOf(memb[c])' = HostsOf(memb'[c])
    BY DEF HostsOf
  <2> QED BY <1>1, <2>1, <2>2, <2>3, <2>4, <2>5 DEF MembersInv
<1>9. FlagsInv' /\ OneCluster'
  BY <1>1, <1>6, <1>7 DEF FlagsInv, OneCluster
<1>10. IdleInv' /\ FirstRun' /\ PeerInv'
  BY <1>1 DEF IdleInv, FirstRun, PeerInv
<1> QED BY <1>8, <1>9, <1>10

\* Until a run changes the membership, hosts without data have no container
\* and are not in the fetched configuration.
LEMMA Untouched ==
  ASSUME Right, LaterRun, NEW c \in Configs,
         saved[c] # {}, HostsOf(memb[c]) = saved[c]
  PROVE  /\ pc \notin {"delete_node", "reload"} /\ saved[c] = cur
         /\ pc \in {"run", "save"} => conf = cur
         /\ \A h \in Fresh : h \notin cur /\ ctr[h] = NoContainer
<1> USE DEF Right, ViewInv
<1>1. memb[c] # {}
  BY DEF EtcdInv
<1>2. saved[c] = cur /\ Membership = cur
  BY <1>1 DEF MembersInv
<1>3. Fresh \cap cur \cap conf = {}
  BY DEF MembersInv
<1>4. pc \in Stages /\ pc \notin {"idle", "state"}
  BY DEF LaterRun, TypeOK
<1>5. CASE pc = "delete"
  <2>1. cur = (cur \cap conf) \cup todo /\ Fresh \cap todo = {}
    BY <1>2, <1>5 DEF Membership, MembersInv
  <2>2. \A h \in Fresh : ctr[h] = NoContainer
    BY <1>5 DEF FlagsInv
  <2> QED BY <1>2, <1>3, <1>5, <2>1, <2>2
<1>6. CASE pc = "delete_node"
  <2>1. cur = (cur \cap conf) \cup (todo \ {First(todo)})
    BY <1>2, <1>6 DEF Membership
  <2>2. First(todo) \in cur \ conf
    BY <1>6, HeadFacts DEF ProcInv
  <2> QED BY <2>1, <2>2
<1>7. CASE pc = "reload"
  <2>1. ReadyHosts = cur
    BY <1>2, <1>7 DEF Membership
  <2>2. First(todo) \in conf \ cur
    BY <1>7, HeadFacts DEF ProcInv
  <2> QED BY <2>1, <2>2 DEF ReadyHosts
<1>8. CASE pc \in {"add", "run", "save"}
  <2>1. cur \subseteq conf /\ (pc \in {"run", "save"} => conf = cur)
    BY <1>2, <1>8 DEF Membership
  <2>2. \A h \in Fresh : h \notin cur
    BY <1>3, <2>1
  <2>3. \A h \in Fresh : ctr[h] = NoContainer
    BY <1>2, <1>8, <2>2 DEF FlagsInv
  <2> QED BY <1>2, <1>8, <2>1, <2>2, <2>3
<1> QED BY <1>4, <1>5, <1>6, <1>7, <1>8 DEF Stages

\* No host without data is about to found a cluster in a later run.
LEMMA NoFounder ==
  ASSUME Right, LaterRun, NEW h \in Fresh
  PROVE  ctr[h].state # "new"
BY NoContainerFacts DEF Right, ViewInv, FlagsInv, Peered

\* A failed run leaves hosts without data alone, or it is not to be resumed.
LEMMA FailView ==
  ASSUME Right, pc \notin {"idle", "state"}, Fail,
         UNCHANGED <<data, memb, announced, saved>>,
         \A h \in Fresh : \/ ctr'[h] = ctr[h]
                          \/ pc = "reload" /\ ctr'[h].state # "new"
                          \/ cur = {} /\ (ctr'[h].state = "new" =>
                                             h \in conf /\ ctr'[h].init = conf)
                             /\ pc = "run"
  PROVE  ViewInv'
<1> USE DEF Right, ViewInv
<1>1. Fresh' = Fresh /\ pc' = "idle" /\ result' = "err"
  BY DEF Fresh, Fail
<1>2. cur = {} => pc \in {"run", "save"}
  BY DEF ProcInv, TypeOK, Stages
<1>3. IdleInv'
  <2>1. CASE cur = {}
    BY <1>1, <1>2, <2>1 DEF IdleInv, FirstRun
  <2>2. CASE cur # {}
    <3> SUFFICES ASSUME NEW c \in Configs,
                        saved[c] # {}, HostsOf(memb[c]) = saved[c], NEW h \in Fresh
                 PROVE  h \notin saved[c] /\ ctr'[h] = NoContainer
      BY <1>1 DEF IdleInv, HostsOf
    <3>1. LaterRun
      BY <2>2 DEF LaterRun
    <3>2. /\ pc # "reload" /\ saved[c] = cur
          /\ h \notin cur /\ ctr[h] = NoContainer
      BY <3>1, Untouched
    <3> QED BY <2>2, <3>2
  <2> QED BY <2>1, <2>2
<1>4. OneCluster'
  <2>1. CASE cur = {}
    <3>1. Claims \subseteq {conf} /\ conf \in Configs /\
          \A c \in Configs : memb[c] \in {{}, Founders(conf)}
      BY <1>2, <2>1 DEF FirstRun, ProcInv
    <3>2. \A h \in Fresh : h \in conf => Member(h, 0) \in Founders(conf)
      BY DEF Founders
    <3>3. \A h \in Fresh : ctr'[h].state = "new" =>
             /\ \A c \in Configs : Member(h, 0) \notin announced[c]
             /\ memb[ctr'[h].init] # {} => Member(h, 0) \in memb[ctr'[h].init]
             /\ ctr'[h].init = conf
      <4> SUFFICES ASSUME NEW h \in Fresh, ctr'[h].state = "new"
                   PROVE  /\ \A c \in Configs : Member(h, 0) \notin announced[c]
                          /\ memb[ctr'[h].init] # {} =>
                                Member(h, 0) \in memb[ctr'[h].init]
                          /\ ctr'[h].init = conf
        OBVIOUS
      <4>1. CASE ctr'[h] = ctr[h]
        <5>1. ctr[h].init \in Claims
          BY <4>1 DEF Claims
        <5> QED BY <3>1, <4>1, <5>1 DEF OneCluster
      <4>2. CASE pc = "run" /\ h \in conf /\ ctr'[h].init = conf
        BY <2>1, <3>1, <3>2, <4>2 DEF OneCluster
      <4> QED BY <1>2, <2>1, <4>1, <4>2
    <3>4. Claims' \subseteq {conf}
      <4>1. {data[h].cluster : h \in Hosts \ Fresh} \subseteq {conf}
        BY <3>1 DEF Claims
      <4>2. Claims' = {data[h].cluster : h \in Hosts \ Fresh} \cup
                      {ctr'[h].init : h \in {x \in Fresh : ctr'[x].state = "new"}}
        BY <1>1 DEF Claims
      <4> QED BY <3>3, <4>1, <4>2
    <3> QED BY <1>1, <3>3, <3>4 DEF OneCluster
  <2>2. CASE cur # {}
    <3>1. LaterRun
      BY <2>2 DEF LaterRun
    <3>2. \A h \in Fresh : ctr'[h].state # "new"
      BY <2>2, <3>1, NoFounder
    <3>3. Claims' \subseteq Claims
      BY <1>1, <3>2 DEF Claims
    <3> QED BY <1>1, <3>2, <3>3 DEF OneCluster
  <2> QED BY <2>1, <2>2
<1>5. FirstRun' /\ MembersInv' /\ FlagsInv' /\ PeerInv'
  BY <1>1 DEF FirstRun, LaterRun, MembersInv, FlagsInv, PeerInv
<1> QED BY <1>3, <1>4, <1>5

LEMMA AbortView == ASSUME Right, Abort \/ (CheckHealth /\ Fail) \/
                                 (SaveClusterState /\ Fail) \/
                                 (AddEtcdMember /\ Fail),
                          UNCHANGED <<ctr, data, memb, announced, saved>>,
                          pc # "state"
                   PROVE  ViewInv'
BY FailView DEF Abort, CheckHealth, SaveClusterState, AddEtcdMember, Fail

LEMMA AbortInStateView ==
  ASSUME Right, Abort, pc = "state"
  PROVE  ViewInv'
<1> USE DEF Right, ViewInv, Abort, hostVars, etcdVars
<1>1. pc' = "idle" /\ result' = "err"
  BY DEF Fail
<1>2. \A h \in Hosts : CanBoot(h)' <=> CanBoot(h)
  BY SameBoot
<1>3. Fresh' = Fresh /\ Claims' = Claims
  BY DEF Fresh, Claims
<1>4. IdleInv'
  BY <1>1, <1>2, <1>3 DEF IdleInv, HostsOf, Fresh
<1>5. OneCluster'
  BY <1>1, <1>3 DEF OneCluster
<1>6. FirstRun' /\ MembersInv' /\ FlagsInv' /\ PeerInv'
  BY <1>1 DEF FirstRun, LaterRun, MembersInv, FlagsInv, PeerInv
<1> QED BY <1>4, <1>5, <1>6

\* In a later run, a step that leaves hosts without data no "new" container.
LEMMA LaterOneCluster ==
  ASSUME Right, Fresh' \subseteq Fresh, UNCHANGED data, cur' # {},
         \A h \in Fresh : ctr'[h].state # "new"
  PROVE  OneCluster'
<1>1. Claims' \subseteq Claims
  BY DEF Claims, Fresh
<1>2. \A c, d \in Claims : c = d
  BY DEF Right, ViewInv, OneCluster
<1>3. \A h \in Fresh' : ctr'[h].state # "new"
  OBVIOUS
<1> QED BY <1>1, <1>2, <1>3 DEF OneCluster

LEMMA DeletedView ==
  ASSUME Right, Deleted
  PROVE  ViewInv'
<1> USE DEF Right, ViewInv, hostVars, etcdVars, procVars
<1>1. /\ pc = "delete" /\ pc' = "add" /\ todo = {} /\ todo' = conf \ cur
      /\ UNCHANGED <<ctr, data, up, memb, announced, saved, conf, cur, existing>>
      /\ cur # {}
  BY DEF Deleted, Goto, ProcInv
<1>2. LaterRun /\ LaterRun' /\ Fresh' = Fresh
  BY <1>1 DEF LaterRun, Fresh
<1>3. Membership = cur \cap conf /\ Membership' = cur \cap conf
  BY <1>1 DEF Membership
<1>4. \A h \in Fresh : ctr[h] = NoContainer /\ h \notin Membership'
  BY <1>1, <1>2, <1>3 DEF FlagsInv, MembersInv
<1>5. OneCluster'
  BY <1>1, <1>2, LaterOneCluster, NoFounder
<1>6. MembersInv'
  BY <1>1, <1>2, <1>3 DEF MembersInv, HostsOf
<1>7. FlagsInv'
  BY <1>1, <1>2, <1>4 DEF FlagsInv
<1>8. PeerInv'
  BY <1>1, <1>3 DEF PeerInv
<1>9. IdleInv' /\ FirstRun'
  BY <1>1 DEF IdleInv, FirstRun
<1> QED BY <1>5, <1>6, <1>7, <1>8, <1>9

LEMMA AddedView ==
  ASSUME Right, Added
  PROVE  ViewInv'
<1> USE DEF Right, ViewInv, hostVars, etcdVars, procVars
<1>1. /\ pc = "add" /\ pc' = "run" /\ todo = {} /\ todo' = {}
      /\ UNCHANGED <<ctr, data, up, memb, announced, saved, conf, cur, existing>>
      /\ cur # {}
  BY DEF Added, Goto, ProcInv
<1>2. LaterRun /\ LaterRun' /\ Fresh' = Fresh
  BY <1>1 DEF LaterRun, Fresh
<1>3. Membership = conf /\ Membership' = conf
  BY <1>1 DEF Membership
<1>4. OneCluster'
  BY <1>1, <1>2, LaterOneCluster, NoFounder
<1>5. MembersInv'
  BY <1>1, <1>2, <1>3 DEF MembersInv, HostsOf
<1>6. FlagsInv'
  BY <1>1, <1>2, <1>3 DEF FlagsInv
<1>7. PeerInv'
  BY <1>1, <1>2, <1>3 DEF PeerInv
<1>8. IdleInv' /\ FirstRun'
  BY <1>1 DEF IdleInv, FirstRun
<1> QED BY <1>4, <1>5, <1>6, <1>7, <1>8

\* Members and their hosts are as many.
LEMMA HostsCount ==
  ASSUME NEW M, IsFiniteSet(M)
  PROVE  /\ IsFiniteSet(HostsOf(M))
         /\ Cardinality(HostsOf(M)) <= Cardinality(M)
         /\ Cardinality(M) \in Nat /\ Cardinality(HostsOf(M)) \in Nat
<1>1. [m \in M |-> m.host] \in Surjection(M, HostsOf(M))
  BY DEF Surjection, HostsOf
<1>2. IsFiniteSet(HostsOf(M)) /\ Cardinality(HostsOf(M)) <= Cardinality(M)
  BY <1>1, FS_Surjection
<1> QED BY <1>2, FS_CardinalityType

\* The members that do not serve are a minority.
LEMMA Minority ==
  ASSUME NEW M, IsFiniteSet(M), NEW S \in SUBSET HostsOf(M),
         2 * Cardinality(S) > Cardinality(M),
         NEW U \in SUBSET (HostsOf(M) \ S)
  PROVE  2 * Cardinality(U) < Cardinality(M) /\ Cardinality(U) \in Nat
<1> DEFINE H == HostsOf(M)
<1>1. IsFiniteSet(H) /\ Cardinality(H) <= Cardinality(M)
  BY HostsCount
<1> HIDE DEF H
<1>2. IsFiniteSet(S) /\ IsFiniteSet(U)
  BY <1>1, FS_Subset DEF H
<1>3. Cardinality(S \cup U) = Cardinality(S) + Cardinality(U) - Cardinality(S \cap U)
  BY <1>2, FS_Union
<1>4. S \cap U = {}
  OBVIOUS
<1>5. Cardinality(S \cup U) <= Cardinality(H)
  BY <1>1, FS_Subset DEF H
<1>6. Cardinality({}) = 0
  BY FS_EmptySet
<1>7. /\ Cardinality(S) \in Nat /\ Cardinality(U) \in Nat /\ Cardinality(H) \in Nat
      /\ Cardinality(M) \in Nat
  BY <1>1, <1>2, FS_CardinalityType
<1>8. Cardinality(S) + Cardinality(U) <= Cardinality(H)
  <2>1. Cardinality(S \cap U) = 0
    BY <1>4, <1>6
  <2>2. Cardinality(S \cup U) = Cardinality(S) + Cardinality(U)
    BY <1>3, <1>7, <2>1
  <2> QED BY <1>5, <2>2
<1> QED BY <1>1, <1>7, <1>8

\* A majority is not within a minority.
LEMMA Majority ==
  ASSUME NEW n \in Nat, NEW S, NEW U, IsFiniteSet(U),
         2 * Cardinality(S) > n, 2 * Cardinality(U) < n
  PROVE  \E p \in S : p \notin U
<1> SUFFICES ASSUME S \subseteq U PROVE FALSE
  OBVIOUS
<1>1. IsFiniteSet(S) /\ Cardinality(S) <= Cardinality(U)
  BY FS_Subset
<1>2. Cardinality(S) \in Nat /\ Cardinality(U) \in Nat
  BY <1>1, FS_CardinalityType
<1> QED BY <1>1, <1>2

\* Serving members are on hosts of the membership, with started containers.
LEMMA ServingFacts ==
  ASSUME TypeOK, HostInv, NEW c \in Configs, NEW h \in Serving(c)
  PROVE  /\ h \in Hosts /\ h \in up /\ data[h].cluster = c /\ h \notin Fresh
         /\ IsMember(h) /\ MemberOn(h) \in memb[c] /\ h \in HostsOf(memb[c])
         /\ ctr[h].started
<1>1. h \in Hosts /\ h \in up /\ data[h].cluster = c
  BY DEF Serving, TypeOK
<1>2. IsMember(h) /\ ctr[h].started
  BY <1>1 DEF HostInv
<1>3. MemberOn(h) \in memb[c] /\ h \notin Fresh
  BY <1>1, <1>2 DEF IsMember, Fresh
<1>4. MemberOn(h).host = h
  BY DEF MemberOn, Member
<1> QED BY <1>1, <1>2, <1>3, <1>4, HostsOfFacts

LEMMA AddEtcdMemberView ==
  ASSUME Right, AddEtcdMember, ~Fail
  PROVE  ViewInv'
<1> USE DEF Right, ViewInv
<1> DEFINE h == First(todo)
           through == {e \in conf : /\ Answers(e)
                                    /\ h \notin HostsOf(memb[data[e].cluster])}
           f == First(through)
           c == data[f].cluster
           m == Member(h, ids + 1)
<1>1. /\ pc = "add" /\ pc' = "reload" /\ through # {}
      /\ memb' = [memb EXCEPT ![c] = @ \cup {m}]
      /\ list' = ReadyHosts /\ ids' = ids + 1
      /\ UNCHANGED <<ctr, data, up, announced, saved, conf, cur, todo>>
  BY DEF AddEtcdMember, Goto, hostVars
<1>2. f \in conf /\ Answers(f) /\ h \notin HostsOf(memb[c])
  <2>1. through \in SUBSET Hosts
    BY DEF TypeOK
  <2>2. f \in through
    BY <1>1, <2>1, FirstFacts
  <2> QED BY <2>2
<1>3. /\ h \in todo /\ h \in Hosts /\ todo \subseteq conf \ cur /\ cur # {}
  BY <1>1, HeadFacts DEF AddEtcdMember, ProcInv
<1>4. c \in Configs /\ memb[c] # {} /\ 2 * Cardinality(Serving(c)) > Cardinality(memb[c])
  BY <1>2 DEF TypeOK, HostInv, IsMember, Answers, Quorum
<1> HIDE DEF h, through, f, c
<1>5. \A d \in Configs : memb[d] # {} => d = c
  BY <1>4, OneMembership
<1>6. /\ memb'[c] = memb[c] \cup {m}
      /\ \A d \in Configs : d # c => memb'[d] = memb[d]
  BY <1>1, <1>4 DEF TypeOK
<1>7. LaterRun /\ LaterRun' /\ Fresh' = Fresh
  BY <1>1, <1>3 DEF LaterRun, Fresh
<1>8. Membership = conf \ todo /\ Membership' = (conf \ todo) \cup {h}
  BY <1>1, <1>3 DEF Membership, ReadyHosts, h
<1>9. ReadyHosts = Membership' /\ ReadyHosts' = ReadyHosts
  BY <1>1, <1>3, <1>8 DEF ReadyHosts, h
<1>10. m.host = h /\ m.id = ids + 1
  BY DEF Member
<1> HIDE DEF m
<1>11. HostsOf(memb'[c]) = Membership'
  <2>1. HostsOf(memb[c]) = conf \ todo
    BY <1>4, <1>7, <1>8 DEF MembersInv
  <2> QED BY <1>6, <1>8, <1>10, <2>1, HostsOfFacts
<1>12. MembersInv'
  <2>1. cur \cap conf # {} /\ Fresh \cap cur \cap conf = {} /\ saved[c] = cur
    BY <1>1, <1>4, <1>7 DEF MembersInv
  <2>2. \A d \in Configs : memb'[d] # {} => d = c
    BY <1>5, <1>6
  <2> QED BY <1>1, <1>7, <1>11, <2>1, <2>2 DEF MembersInv, HostsOf
<1>13. \A x \in Fresh : ctr[x] = IF x \in conf \ todo THEN Peered(conf \ todo)
                                  ELSE NoContainer
  BY <1>1, <1>7, <1>8 DEF FlagsInv
<1>14. FlagsInv'
  <2>1. Peered(conf \ todo).started /\ Peered(conf \ todo).state = "existing"
    BY DEF Peered
  <2> QED BY <1>1, <1>3, <1>7, <1>8, <1>9, <1>13, <2>1 DEF FlagsInv
<1>15. OneCluster'
  BY <1>1, <1>3, <1>7, LaterOneCluster, NoFounder
<1>16. PeerInv'
  <2>1. IsFiniteSet(memb[c]) /\ m \notin memb[c]
    BY <1>2, <1>4, <1>10, HostsOfFacts DEF EtcdInv
  <2>2. Cardinality(memb'[c]) = Cardinality(memb[c]) + 1
    BY <1>6, <2>1, FS_AddElement
  <2>3. \A x \in Unreloaded' : x \in HostsOf(memb[c]) \ Serving(c)
    <3> SUFFICES ASSUME NEW x \in Unreloaded'
                 PROVE  x \in HostsOf(memb[c]) \ Serving(c)
      OBVIOUS
    <3>1. x \in ReadyHosts /\ x \in Hosts /\ IsMember(x)' /\ ~ctr[x].started
      BY <1>1, <1>9, HeadFacts DEF Unreloaded
    <3>2. data[x] # NoData /\ Member(x, data[x].id) \in memb'[data[x].cluster]
      BY <1>1, <3>1 DEF IsMember, MemberOn
    <3>3. data[x].cluster \in Configs /\ memb[data[x].cluster] # {}
      BY <3>1, <3>2 DEF HostInv
    <3>4. data[x].cluster = c
      BY <1>5, <3>3
    <3>5. Member(x, data[x].id) # m
      <4>1. Member(x, data[x].id).id = data[x].id /\ data[x].id <= ids
        BY <3>1 DEF Member, IdsInv
      <4> QED BY <1>10, <3>1, <4>1 DEF TypeOK
    <3>6. Member(x, data[x].id) \in memb[c]
      BY <1>6, <3>2, <3>4, <3>5
    <3>7. x \in HostsOf(memb[c])
      BY <3>6 DEF HostsOf, Member
    <3>8. x \notin Serving(c)
      BY <1>4, <3>1, ServingFacts
    <3> QED BY <3>7, <3>8
  <2>4. Serving(c) \subseteq HostsOf(memb[c])
    BY <1>4, ServingFacts
  <2>5. 2 * Cardinality(Unreloaded') < Cardinality(memb[c]) /\
        Cardinality(Unreloaded') \in Nat
    BY <1>4, <2>1, <2>3, <2>4, Minority
  <2>6. Cardinality(memb[c]) \in Nat
    BY <2>1, FS_CardinalityType
  <2>7. 2 * Cardinality(Unreloaded') < Cardinality(memb'[c])
    BY <2>2, <2>5, <2>6
  <2>8. \A d \in Configs : memb'[d] # {} => d = c
    BY <1>5, <1>6
  <2> QED BY <1>1, <2>7, <2>8 DEF PeerInv
<1>17. IdleInv' /\ FirstRun'
  BY <1>1 DEF IdleInv, FirstRun
<1> QED BY <1>12, <1>14, <1>15, <1>16, <1>17

LEMMA ReloadHostView ==
  ASSUME Right, ReloadHost
  PROVE  ViewInv'
<1> USE DEF Right, ViewInv
<1> DEFINE h == First(list)
           want == EtcdConfig(h, ReadyHosts)
<1>1. /\ pc = "reload" /\ list # {} /\ RunContainer(h, want)
      /\ UNCHANGED <<data, memb, announced, saved>>
  BY DEF ReloadHost, etcdVars
<1>2. /\ h \in list /\ h \in Hosts /\ h \in ReadyHosts /\ h \in existing /\ cur # {}
      /\ ReadyHosts \subseteq Hosts
  BY <1>1, HeadFacts DEF ProcInv
<1> HIDE DEF h
<1>3. want = Peered(ReadyHosts) /\ want.started /\ want.state = "existing"
  BY <1>2 DEF EtcdConfig, Peered
<1>4. /\ \A x \in Hosts : x # h => ctr'[x] = ctr[x]
      /\ \/ ctr'[h] = NoContainer
         \/ ctr'[h].init = ReadyHosts /\ ctr'[h].state = want.state
         \/ /\ ctr[h] # NoContainer
            /\ ctr'[h].init = ctr[h].init /\ ctr'[h].state = ctr[h].state
      /\ \/ /\ \/ ctr'[h] = want
               \/ ctr[h] # NoContainer /\ ~ctr[h].started
            /\ list' = list \ {First(list)}
            /\ UNCHANGED <<pc, conf, cur, todo, existing>>
         \/ Fail
  <2>1. ReadyHosts \in SUBSET Hosts /\ want = EtcdConfig(h, ReadyHosts)
    BY <1>2
  <2> QED BY <1>1, <1>2, <2>1, RunEffect
<1>5. LaterRun /\ Fresh' = Fresh
  BY <1>1, <1>2 DEF LaterRun, Fresh
<1>6. \A x \in Fresh : ctr'[x] = ctr[x] \/ ctr'[x].state # "new"
  <2>1. h \in Fresh => ctr[h].state # "new"
    BY <1>5, NoFounder
  <2> QED BY <1>3, <1>4, <2>1, NoContainerFacts DEF Fresh
<1>7. CASE Fail
  BY <1>1, <1>6, <1>7, FailView
<1>8. CASE /\ \/ ctr'[h] = want
              \/ ctr[h] # NoContainer /\ ~ctr[h].started
           /\ list' = list \ {h}
           /\ UNCHANGED <<pc, conf, cur, todo, existing>>
  <2>1. ReadyHosts' = ReadyHosts /\ Membership' = ReadyHosts /\ Membership = ReadyHosts
    BY <1>1, <1>8 DEF ReadyHosts, Membership
  <2>2. MembersInv'
    BY <1>1, <1>5, <1>8, <2>1 DEF MembersInv, LaterRun, HostsOf
  <2>3. h \in Fresh => ctr'[h] = want
    <3>1. h \in Fresh => ctr[h] = NoContainer \/ ctr[h].started
      BY <1>1, <1>2, <1>5 DEF FlagsInv
    <3> QED BY <1>8, <3>1
  <2>4. FlagsInv'
    <3> SUFFICES ASSUME NEW x \in Fresh
                 PROVE  IF x \in list'
                        THEN ctr'[x] = NoContainer \/
                             (ctr'[x].started /\ ctr'[x].state = "existing")
                        ELSE ctr'[x] = IF x \in ReadyHosts THEN Peered(ReadyHosts)
                                       ELSE NoContainer
      BY <1>1, <1>5, <1>8, <2>1 DEF FlagsInv
    <3>1. CASE x = h
      BY <1>2, <1>3, <1>8, <2>3, <3>1
    <3>2. CASE x # h
      <4>1. ctr'[x] = ctr[x] /\ (x \in list' <=> x \in list)
        BY <1>4, <1>8, <3>2 DEF Fresh
      <4> QED BY <1>1, <1>5, <2>1, <4>1 DEF FlagsInv
    <3> QED BY <3>1, <3>2
  <2>5. OneCluster'
    <3>1. \A x \in Fresh : ctr'[x].state # "new"
      BY <1>5, <1>6, NoFounder
    <3> QED BY <1>1, <1>2, <1>5, <1>8, <3>1, LaterOneCluster
  <2>6. PeerInv'
    <3>1. \A x \in Hosts : IsMember(x)' <=> IsMember(x)
      BY <1>1 DEF IsMember, MemberOn
    <3>2. Unreloaded' \subseteq Unreloaded
      <4> SUFFICES ASSUME NEW x \in Unreloaded' PROVE x \in Unreloaded
        OBVIOUS
      <4>1. x \in ReadyHosts /\ x \in Hosts /\ IsMember(x)
        BY <1>2, <2>1, <3>1 DEF Unreloaded
      <4>2. CASE x = h
        <5>1. ctr'[h] # Peered(ReadyHosts)
          BY <1>8, <2>1, <4>2 DEF Unreloaded
        <5> QED BY <1>2, <1>3, <1>8, <4>1, <4>2, <5>1 DEF Unreloaded
      <4>3. CASE x # h
        <5>1. ctr'[x] = ctr[x] /\ (x \in list' <=> x \in list)
          BY <1>4, <1>8, <4>1, <4>3
        <5> QED BY <2>1, <4>1, <5>1 DEF Unreloaded
      <4> QED BY <4>2, <4>3
    <3>3. IsFiniteSet(Unreloaded)
      BY <1>2, EtcdAssumption, FS_Subset DEF Unreloaded
    <3>4. /\ IsFiniteSet(Unreloaded')
          /\ Cardinality(Unreloaded') <= Cardinality(Unreloaded)
      BY <3>2, <3>3, FS_Subset
    <3>5. Cardinality(Unreloaded') \in Nat /\ Cardinality(Unreloaded) \in Nat
      BY <3>3, <3>4, FS_CardinalityType
    <3>6. \A c \in Configs : Cardinality(memb[c]) \in Nat
      BY FS_CardinalityType DEF EtcdInv
    <3>7. \A c \in Configs : memb[c] # {} =>
             2 * Cardinality(Unreloaded) < Cardinality(memb[c])
      BY <1>1, <1>5 DEF PeerInv
    <3>8. \A c \in Configs : memb[c] # {} =>
             2 * Cardinality(Unreloaded') < Cardinality(memb[c])
      BY <3>4, <3>5, <3>6, <3>7
    <3> QED BY <1>1, <1>8, <3>8 DEF PeerInv
  <2>7. IdleInv' /\ FirstRun'
    BY <1>1, <1>8 DEF IdleInv, FirstRun
  <2> QED BY <2>2, <2>4, <2>5, <2>6, <2>7
<1> QED BY <1>4, <1>7, <1>8 DEF h

LEMMA CheckHealthView ==
  ASSUME Right, CheckHealth, ~Fail
  PROVE  ViewInv'
<1> USE DEF Right, ViewInv, hostVars, etcdVars
<1>1. /\ pc = "reload" /\ pc' = "add" /\ list = {} /\ todo' = todo \ {First(todo)}
      /\ IsEtcdHealthy(ReadyHosts)
      /\ UNCHANGED <<ctr, data, up, memb, announced, saved, conf, cur, existing>>
      /\ cur # {} /\ ReadyHosts \subseteq existing
  BY DEF CheckHealth, Goto, ProcInv
<1>2. LaterRun /\ LaterRun' /\ Fresh' = Fresh
  BY <1>1 DEF LaterRun, Fresh
<1>3. Membership = ReadyHosts /\ Membership' = ReadyHosts
  BY <1>1 DEF Membership, ReadyHosts
<1>4. OneCluster'
  BY <1>1, <1>2, LaterOneCluster, NoFounder
<1>5. MembersInv'
  BY <1>1, <1>2, <1>3 DEF MembersInv, HostsOf
<1>6. FlagsInv'
  BY <1>1, <1>2, <1>3 DEF FlagsInv
<1>7. PeerInv'
  <2>1. PICK e \in ReadyHosts : Answers(e)
    BY <1>1 DEF IsEtcdHealthy
  <2> DEFINE c == data[e].cluster
  <2>2. c \in Configs /\ memb[c] # {} /\ 2 * Cardinality(Serving(c)) > Cardinality(memb[c])
    BY <2>1 DEF Answers, HostInv, IsMember, TypeOK, Quorum
  <2>3. 2 * Cardinality(Unreloaded) < Cardinality(memb[c])
    BY <1>1, <1>2, <2>2 DEF PeerInv
  <2>4. IsFiniteSet(Unreloaded) /\ Cardinality(memb[c]) \in Nat
    <3>1. Unreloaded \in SUBSET Hosts
      BY HeadFacts DEF Unreloaded
    <3>2. IsFiniteSet(memb[c])
      BY <2>2 DEF EtcdInv
    <3> QED BY <3>1, <3>2, EtcdAssumption, FS_Subset, FS_CardinalityType
  <2>5. PICK p \in Serving(c) : p \notin Unreloaded
    BY <2>2, <2>3, <2>4, Majority
  <2>6. p \in up /\ IsMember(p) /\ p \in HostsOf(memb[c])
    BY <2>2, ServingFacts
  <2>7. p \in ReadyHosts
    BY <1>2, <1>3, <2>2, <2>6 DEF MembersInv
  <2>8. ctr[p] = Peered(ReadyHosts)
    BY <1>1, <2>5, <2>6, <2>7 DEF Unreloaded
  <2> QED BY <1>1, <1>3, <2>6, <2>8 DEF PeerInv
<1>8. IdleInv' /\ FirstRun'
  BY <1>1 DEF IdleInv, FirstRun
<1> QED BY <1>4, <1>5, <1>6, <1>7, <1>8

LEMMA RunEtcdPlaneView ==
  ASSUME Right, RunEtcdPlane
  PROVE  ViewInv'
<1> USE DEF Right, ViewInv
<1> DEFINE h == First(list)
           want == EtcdConfig(h, conf)
<1>1. /\ pc = "run" /\ list # {} /\ RunContainer(h, want)
      /\ UNCHANGED <<data, memb, announced, saved>>
  BY DEF RunEtcdPlane, etcdVars
<1>2. /\ h \in list /\ h \in Hosts /\ h \in conf /\ conf \in Configs
      /\ conf \subseteq Hosts
  BY <1>1, HeadFacts DEF ProcInv, TypeOK
<1> HIDE DEF h
<1>3. want.started /\ want.init = conf
  BY DEF EtcdConfig
<1>4. /\ \A x \in Hosts : x # h => ctr'[x] = ctr[x]
      /\ up \ {h} \subseteq up'
      /\ h \in up => (h \in up' <=> ctr'[h] = ctr[h])
      /\ \/ ctr'[h] = NoContainer
         \/ ctr'[h].init = conf /\ ctr'[h].state = want.state
         \/ /\ ctr[h] # NoContainer
            /\ ctr'[h].init = ctr[h].init /\ ctr'[h].state = ctr[h].state
      /\ \/ /\ \/ ctr'[h] = want
               \/ ctr[h] # NoContainer /\ ~ctr[h].started
            /\ list' = list \ {First(list)}
            /\ UNCHANGED <<pc, conf, cur, todo, existing>>
         \/ /\ ctr[h] # NoContainer => ctr[h].started /\ ctr[h] # want
            /\ ctr[h] = NoContainer => ctr'[h] = Stopped(want)
            /\ Fail
  <2>1. conf \in SUBSET Hosts /\ want = EtcdConfig(h, conf)
    BY <1>2
  <2>2. RunContainer(h, want)
    BY <1>1
  <2>3. TypeOK /\ h \in Hosts
    BY <1>2
  <2> HIDE DEF want, Right, ViewInv
  <2>4. /\ \A x \in Hosts : x # h => ctr'[x] = ctr[x]
        /\ up \ {h} \subseteq up'
        /\ h \in up => (h \in up' <=> ctr'[h] = ctr[h])
        /\ \/ ctr'[h] = NoContainer
           \/ ctr'[h].init = conf /\ ctr'[h].state = want.state
           \/ /\ ctr[h] # NoContainer
              /\ ctr'[h].init = ctr[h].init /\ ctr'[h].state = ctr[h].state
    BY <2>1, <2>2, <2>3, RunEffect
  <2>5. \/ /\ ctr'[h] = want \/ (ctr[h] # NoContainer /\ ~ctr[h].started)
           /\ list' = list \ {First(list)}
           /\ UNCHANGED <<pc, conf, cur, todo, existing>>
        \/ /\ ctr[h] # NoContainer => ctr[h].started /\ ctr[h] # want
           /\ ctr[h] = NoContainer => ctr'[h] = Stopped(want)
           /\ Fail
    <3>1. \/ /\ ctr'[h].started /\ parked' = parked
             /\ \/ ctr'[h] = want
                \/ /\ ctr[h] # NoContainer /\ ~ctr[h].started
                   /\ ctr'[h] = [ctr[h] EXCEPT !.started = TRUE]
             /\ list' = list \ {First(list)}
             /\ UNCHANGED <<pc, faults, clean, result, conf, cur, todo,
                            existing, runs, astray>>
          \/ /\ ctr[h] = NoContainer => ctr'[h] = Stopped(want)
             /\ ctr[h] # NoContainer => ctr[h].started /\ ctr[h] # want
             /\ \/ Fault
                \/ h \in parked /\ UNCHANGED <<faults, clean>>
             /\ Fail
      BY <2>1, <2>2, <2>3, RunEffect
    <3> QED BY <3>1
  <2> QED BY <2>4, <2>5
<1>5. Fresh' = Fresh /\ Fresh \subseteq Hosts
  BY <1>1 DEF Fresh
<1>6. CASE cur = {}
  <2>1. /\ Claims \subseteq {conf} /\ existing = {}
        /\ \A c \in Configs : saved[c] = {} /\ memb[c] \in {{}, Founders(conf)}
        /\ \A x \in Fresh : ctr[x] = IF x \in conf /\ x \notin list
                                     THEN Founding(conf) ELSE NoContainer
    BY <1>1, <1>6 DEF FirstRun
  <2>2. want = Founding(conf) /\ Stopped(want).init = conf
    BY <2>1 DEF EtcdConfig, Founding, Stopped
  <2>3. h \in Fresh => ctr[h] = NoContainer
    BY <1>2, <2>1
  <2>4. CASE Fail
    <3>1. \A x \in Fresh : ctr'[x] = ctr[x] \/
             (ctr'[x].state = "new" => x \in conf /\ ctr'[x].init = conf)
      <4>1. h \in Fresh /\ ctr'[h].state = "new" => ctr'[h].init = conf
        BY <1>4, <2>3, NoContainerFacts
      <4> QED BY <1>2, <1>4, <1>5, <4>1
    <3> QED BY <1>1, <1>6, <2>4, <3>1, FailView
  <2>5. CASE /\ \/ ctr'[h] = want
                \/ ctr[h] # NoContainer /\ ~ctr[h].started
             /\ list' = list \ {h}
             /\ UNCHANGED <<pc, conf, cur, todo, existing>>
    <3>1. \A x \in Fresh : ctr'[x] = IF x \in conf /\ x \notin list'
                                     THEN Founding(conf) ELSE NoContainer
      BY <1>2, <1>4, <1>5, <2>1, <2>2, <2>3, <2>5
    <3>2. Founding(conf).init = conf /\ Founding(conf).state = "new"
      BY DEF Founding
    <3>3. Claims' \subseteq {conf}
      <4>1. {data[x].cluster : x \in Hosts \ Fresh} \subseteq {conf}
        BY <2>1 DEF Claims
      <4>2. Claims' = {data[x].cluster : x \in Hosts \ Fresh} \cup
                      {ctr'[x].init : x \in {y \in Fresh : ctr'[y].state = "new"}}
        BY <1>1, <1>5 DEF Claims
      <4>3. \A x \in Fresh : ctr'[x].state = "new" => ctr'[x].init = conf
        BY <3>1, <3>2, NoContainerFacts
      <4> QED BY <4>1, <4>2, <4>3
    <3>4. OneCluster'
      <4>1. \A x \in Fresh, c \in Configs : Member(x, 0) \notin announced[c]
        BY <1>1, <1>6 DEF OneCluster
      <4>2. \A x \in Fresh : ctr'[x].state = "new" /\ memb[ctr'[x].init] # {} =>
               Member(x, 0) \in memb[ctr'[x].init]
        <5> SUFFICES ASSUME NEW x \in Fresh, ctr'[x].state = "new",
                            memb[ctr'[x].init] # {}
                     PROVE  Member(x, 0) \in memb[ctr'[x].init]
          OBVIOUS
        <5>1. x \in conf /\ ctr'[x].init = conf
          BY <3>1, <3>2, NoContainerFacts
        <5>2. memb[conf] = Founders(conf)
          BY <1>2, <2>1, <5>1
        <5> QED BY <5>1, <5>2 DEF Founders
      <4> QED BY <1>1, <1>5, <3>3, <4>1, <4>2 DEF OneCluster
    <3>5. FirstRun'
      BY <1>1, <1>5, <2>1, <2>5, <3>1, <3>3 DEF FirstRun
    <3>6. IdleInv' /\ MembersInv' /\ FlagsInv' /\ PeerInv'
      BY <1>1, <1>6, <2>5 DEF IdleInv, LaterRun, MembersInv, FlagsInv, PeerInv
    <3> QED BY <3>4, <3>5, <3>6
  <2> QED BY <1>4, <2>4, <2>5 DEF h
<1>7. CASE cur # {}
  <2>1. LaterRun /\ Membership = conf
    BY <1>1, <1>7 DEF LaterRun, Membership
  <2>2. conf \ cur # {} => want = Peered(conf)
    BY <1>1, <1>2, <2>1 DEF PeerInv, EtcdConfig, Peered
  <2>3. h \in Fresh => ctr[h] = Peered(conf) /\ want = Peered(conf)
    <3>1. h \in Fresh => h \in conf \ cur /\ ctr[h] = Peered(conf)
      BY <1>1, <1>2, <2>1 DEF MembersInv, FlagsInv
    <3> QED BY <2>2, <3>1
  <2>4. Peered(conf).started /\ Peered(conf) # NoContainer
    BY NoContainerFacts DEF Peered
  <2>5. CASE Fail
    <3>1. h \in Fresh => ctr'[h] = ctr[h]
      BY <1>4, <2>3, <2>4, <2>5, <1>1 DEF Fail
    <3> QED BY <1>1, <1>4, <1>5, <2>5, <3>1, FailView
  <2>6. CASE /\ \/ ctr'[h] = want
                \/ ctr[h] # NoContainer /\ ~ctr[h].started
             /\ list' = list \ {h}
             /\ UNCHANGED <<pc, conf, cur, todo, existing>>
    <3>1. Membership' = conf
      BY <1>1, <2>6 DEF Membership
    <3>2. \A x \in Fresh : ctr'[x] = ctr[x]
      BY <1>4, <1>5, <2>3, <2>4, <2>6
    <3>3. MembersInv'
      BY <1>1, <1>5, <2>1, <2>6, <3>1 DEF MembersInv, LaterRun, HostsOf
    <3>4. FlagsInv'
      BY <1>1, <1>5, <2>1, <2>6, <3>1, <3>2 DEF FlagsInv
    <3>5. OneCluster'
      BY <1>1, <1>5, <1>7, <2>1, <2>6, <3>2, LaterOneCluster, NoFounder
    <3>6. PeerInv'
      <4>1. ASSUME conf \ cur # {}
            PROVE  conf \subseteq existing /\ \E p \in up' : ctr'[p] = Peered(conf)
        <5>1. PICK p \in up : ctr[p] = Peered(conf) /\ conf \subseteq existing
          BY <1>1, <2>1, <4>1 DEF PeerInv
        <5>2. p \in Hosts
          BY DEF TypeOK
        <5>3. p = h => ctr'[h] = ctr[h]
          BY <2>2, <2>4, <2>6, <4>1, <5>1
        <5>4. ctr'[p] = ctr[p] /\ p \in up'
          BY <1>4, <5>1, <5>2, <5>3
        <5> QED BY <5>1, <5>4
      <4> QED BY <1>1, <2>6, <3>1, <4>1 DEF PeerInv
    <3>7. IdleInv' /\ FirstRun'
      BY <1>1, <1>7, <2>6 DEF IdleInv, FirstRun
    <3> QED BY <3>3, <3>4, <3>5, <3>6, <3>7
  <2> QED BY <1>4, <2>5, <2>6 DEF h
<1> QED BY <1>6, <1>7

LEMMA RunKubeAPIView ==
  ASSUME Right, RunKubeAPI
  PROVE  ViewInv'
<1> USE DEF Right, ViewInv, hostVars, etcdVars, procVars
<1>1. /\ pc = "run" /\ pc' = "save" /\ list = {}
      /\ UNCHANGED <<ctr, data, up, memb, announced, saved, conf, cur, todo,
                     list, existing>>
  BY DEF RunKubeAPI, Goto
<1>2. Fresh' = Fresh /\ Claims' = Claims
  BY <1>1 DEF Fresh, Claims
<1>3. OneCluster'
  BY <1>1, <1>2 DEF OneCluster
<1>4. FirstRun'
  BY <1>1, <1>2 DEF FirstRun
<1>5. Membership = conf /\ Membership' = conf /\ (LaterRun' <=> LaterRun)
  BY <1>1 DEF Membership, LaterRun
<1>6. MembersInv'
  BY <1>1, <1>2, <1>5 DEF MembersInv, HostsOf
<1>7. FlagsInv'
  BY <1>1, <1>2, <1>5 DEF FlagsInv
<1>8. PeerInv'
  BY <1>1, <1>5 DEF PeerInv
<1>9. IdleInv'
  BY <1>1 DEF IdleInv
<1> QED BY <1>3, <1>4, <1>6, <1>7, <1>8, <1>9

\* A host that is to found the cluster comes up.
LEMMA FounderBoots ==
  ASSUME Right, NEW h \in Fresh, NEW S \in Configs, ctr[h] = Founding(S)
  PROVE  CanBoot(h)
<1> USE DEF Right, ViewInv
<1>1. h \in Hosts /\ data[h] = NoData /\ h \notin up
  BY DEF Fresh, HostInv, IsMember
<1>2. ctr[h].started /\ ctr[h].state = "new" /\ ctr[h].init = S
  BY DEF Founding
<1>3. \A p \in up : data[p].cluster \in Configs
  BY DEF HostInv, IsMember, TypeOK
<1>4. MayBootstrap(h)
  BY <1>2, <1>3 DEF OneCluster, MayBootstrap
<1>5. BootData(h) # {}
  BY <1>1, <1>4 DEF BootData
<1> QED BY <1>1, <1>2, <1>5 DEF CanBoot

\* A host that waits to join the membership there is comes up.
LEMMA PeerBoots ==
  ASSUME Right, LaterRun, pc \in {"add", "run", "save"},
         NEW h \in Fresh, h \in Membership
  PROVE  CanBoot(h)
<1> USE DEF Right, ViewInv
<1>1. h \in Hosts /\ data[h] = NoData /\ h \notin up
  BY DEF Fresh, HostInv, IsMember
<1>2. ctr[h] = Peered(Membership)
  BY DEF FlagsInv
<1>3. Membership \subseteq conf
  BY DEF Membership
<1>4. h \in Membership \ cur
  BY <1>3 DEF MembersInv
<1>5. PICK p \in up : ctr[p] = Peered(Membership)
  BY <1>4 DEF PeerInv
<1>6. /\ Peered(Membership).started /\ Peered(Membership).init = Membership
      /\ Peered(Membership).state = "existing"
  BY DEF Peered
<1>7. p \in Hosts /\ p # h /\ ctr[p] # NoContainer
  BY <1>1, <1>5, <1>6, NoContainerFacts DEF TypeOK
<1>8. p \in ctr[h].init
  BY <1>2, <1>5, <1>6, <1>7 DEF HostInv
<1>9. HostsOf(memb[data[p].cluster]) = Membership
  BY <1>5, <1>7 DEF MembersInv, HostInv, IsMember
<1>10. MayJoin(h, p)
  BY <1>2, <1>5, <1>6, <1>7, <1>8, <1>9 DEF MayJoin
<1>11. BootData(h) # {}
  BY <1>1, <1>7, <1>10 DEF BootData
<1> QED BY <1>1, <1>2, <1>6, <1>11 DEF CanBoot

\* When a run saves, the members are the configured hosts.
LEMMA SavedMembers ==
  ASSUME Right, pc = "save", NEW c \in Configs, memb[c] # {}
  PROVE  HostsOf(memb[c]) = conf
<1> USE DEF Right, ViewInv
<1>1. CASE cur = {}
  <2>1. memb[c] = Founders(conf) /\ conf \in Configs
    BY <1>1 DEF FirstRun, ProcInv
  <2> QED BY <2>1, FoundersFacts
<1>2. CASE cur # {}
  BY <1>2 DEF LaterRun, MembersInv, Membership
<1> QED BY <1>1, <1>2

LEMMA SaveClusterStateView ==
  ASSUME Right, SaveClusterState, ~Fail
  PROVE  ViewInv'
<1> USE DEF Right, ViewInv, hostVars, procVars
<1>1. PICK e \in endpoints :
         Answers(e) /\ saved' = [saved EXCEPT ![data[e].cluster] = conf]
  BY DEF SaveClusterState
<1>2. /\ pc = "save" /\ pc' = "idle" /\ result' = "up"
      /\ UNCHANGED <<ctr, data, up, memb, announced, conf, cur>>
  BY DEF SaveClusterState
<1> DEFINE c == data[e].cluster
<1>3. c \in Configs /\ memb[c] # {}
  BY <1>1 DEF Answers, HostInv, IsMember, TypeOK
<1>4. HostsOf(memb[c]) = conf
  BY <1>2, <1>3, SavedMembers
<1>5. \A d \in Configs : saved'[d] # {} => d = c
  <2>1. \A d \in Configs : memb[d] # {} => d = c
    BY <1>3, OneMembership
  <2> HIDE DEF c
  <2>2. \A d \in Configs : d # c => saved'[d] = saved[d]
    BY <1>1 DEF TypeOK, c
  <2> QED BY <2>1, <2>2 DEF EtcdInv
<1>6. saved'[c] = conf
  BY <1>1, <1>3 DEF TypeOK
<1>7. Fresh' = Fresh /\ Claims' = Claims
  BY <1>2 DEF Fresh, Claims
<1>8. \A h \in Fresh : IF h \in conf THEN CanBoot(h) ELSE ctr[h] = NoContainer
  <2>1. CASE cur = {}
    <3>1. conf \in Configs /\ \A h \in Fresh :
             ctr[h] = IF h \in conf THEN Founding(conf) ELSE NoContainer
      BY <1>2, <2>1 DEF FirstRun, ProcInv
    <3> QED BY <3>1, FounderBoots
  <2>2. CASE cur # {}
    <3>1. LaterRun /\ Membership = conf
      BY <1>2, <2>2 DEF LaterRun, Membership
    <3>2. \A h \in Fresh : h \notin conf => ctr[h] = NoContainer
      BY <1>2, <3>1 DEF FlagsInv
    <3> QED BY <1>2, <3>1, <3>2, PeerBoots
  <2> QED BY <2>1, <2>2
<1>9. \A h \in Fresh : CanBoot(h)' <=> CanBoot(h)
  BY <1>2, SameBoot DEF Fresh
<1>10. IdleInv'
  <2> SUFFICES ASSUME NEW d \in Configs, saved'[d] # {}
               PROVE  /\ HostsOf(memb[d]) = saved'[d]
                      /\ \A h \in Fresh : IF h \in saved'[d] THEN CanBoot(h)'
                                          ELSE ctr'[h] = NoContainer
    BY <1>2, <1>7 DEF IdleInv, HostsOf
  <2>1. d = c
    BY <1>5
  <2> QED BY <1>2, <1>4, <1>6, <1>8, <1>9, <2>1
<1>11. OneCluster'
  BY <1>2, <1>7 DEF OneCluster
<1>12. FirstRun' /\ MembersInv' /\ FlagsInv' /\ PeerInv'
  BY <1>2 DEF FirstRun, LaterRun, MembersInv, FlagsInv, PeerInv
<1> QED BY <1>10, <1>11, <1>12

\* What a booting etcd leaves as it was.
LEMMA BootChanges ==
  ASSUME Right, NEW h \in Hosts, Boot(h)
  PROVE  /\ UNCHANGED <<ctr, saved, pc, conf, cur, todo, list, existing, result>>
         /\ pc # "state" /\ h \notin up /\ ctr[h].started
         /\ Fresh' = Fresh \ {h} /\ up \subseteq up' /\ up' \subseteq up \cup {h}
         /\ \A x \in Hosts : x # h => data'[x] = data[x]
         /\ h \notin Fresh => data'[h] = data[h] /\ IsMember(h)
         /\ IsMember(h)'
         /\ Claims' \subseteq Claims
         /\ \A c \in Configs : memb[c] # {} => memb'[c] = memb[c]
         /\ \A c \in Configs : memb'[c] # memb[c] =>
               /\ memb'[c] = Founders(c) /\ c \in Claims
               /\ h \in Fresh /\ ctr[h].state = "new"
         /\ \A g \in Fresh', c \in Configs :
               Member(g, 0) \in announced'[c] => Member(g, 0) \in announced[c]
<1> USE DEF Right, ViewInv
<1>1. PICK d \in BootData(h) :
        /\ d.cluster \in Configs
        /\ data' = [data EXCEPT ![h] = d]
        /\ \A c \in Configs :
              memb'[c] = IF c = d.cluster /\ memb[c] = {} THEN Founders(c)
                         ELSE memb[c]
        /\ up' = IF Member(h, d.id) \in memb'[d.cluster] THEN up \cup {h} ELSE up
        /\ \A c \in Configs :
              announced'[c] \in {announced[c],
                                 announced[c] \cup
                                    {Member(x, data'[x].id) : x \in Serving(c)'}}
  BY BootEffect
<1>2. /\ UNCHANGED <<ctr, saved, pc, conf, cur, todo, list, existing, result>>
      /\ CanBoot(h) /\ ctr[h].started /\ h \notin up
  BY DEF Boot, CanBoot, procVars
<1>3. /\ data[h] # NoData => d = data[h] /\ IsMember(h)
      /\ data[h] = NoData =>
            \/ ctr[h].state = "new" /\ d.cluster = ctr[h].init
            \/ /\ ctr[h].state = "existing"
               /\ \E p \in up \ {h} : d.cluster = data[p].cluster
  BY <1>2, BootFacts
<1>4. /\ data'[h] = d /\ d # NoData
      /\ \A x \in Hosts : x # h => data'[x] = data[x]
  BY <1>1, EtcdAssumption DEF NoData, TypeOK
<1>5. Fresh' = Fresh \ {h}
  BY <1>4 DEF Fresh
<1>6. pc # "state"
  BY <1>2 DEF ProcInv, Settled
<1>7. up \subseteq up' /\ up' \subseteq up \cup {h}
  BY <1>1
<1>8. \A p \in up : p \in Hosts \ Fresh /\ memb[data[p].cluster] # {}
  BY DEF HostInv, IsMember, TypeOK, Fresh
<1>9. d.cluster \in Claims
  <2>1. CASE data[h] # NoData
    BY <1>3, <2>1 DEF Claims, Fresh
  <2>2. CASE data[h] = NoData /\ ctr[h].state = "new" /\ d.cluster = ctr[h].init
    BY <2>2 DEF Claims, Fresh
  <2>3. CASE \E p \in up \ {h} : d.cluster = data[p].cluster
    BY <1>8, <2>3 DEF Claims
  <2> QED BY <1>3, <2>1, <2>2, <2>3
<1>10. Claims' \subseteq Claims
  <2>1. \A x \in Hosts \ Fresh' : data'[x].cluster \in Claims
    BY <1>4, <1>5, <1>9 DEF Claims
  <2>2. \A x \in Fresh' : ctr'[x].state = "new" => ctr'[x].init \in Claims
    BY <1>2, <1>5 DEF Claims
  <2> QED BY <2>1, <2>2 DEF Claims
<1>11. \A c \in Configs : memb'[c] # memb[c] =>
          /\ memb'[c] = Founders(c) /\ c \in Claims
          /\ h \in Fresh /\ ctr[h].state = "new"
  <2>1. ASSUME memb[d.cluster] = {} PROVE h \in Fresh /\ ctr[h].state = "new"
    BY <1>3, <1>8, <2>1 DEF HostInv, Fresh
  <2> QED BY <1>1, <1>9, <2>1
<1>12. \A g \in Fresh', c \in Configs :
          Member(g, 0) \in announced'[c] => Member(g, 0) \in announced[c]
  <2> SUFFICES ASSUME NEW g \in Fresh', NEW c \in Configs,
                      Member(g, 0) \in announced'[c]
               PROVE  Member(g, 0) \in announced[c]
    OBVIOUS
  <2>1. g \notin up'
    <3>1. g \in Fresh /\ g # h /\ g \notin up
      BY <1>5, <1>8
    <3> QED BY <1>7, <3>1
  <2>2. \A x, i : Member(x, i) = Member(g, 0) => x = g
    BY DEF Member
  <2>3. \A x \in Serving(c)' : Member(x, data'[x].id) # Member(g, 0)
    BY <2>1, <2>2 DEF Serving
  <2> HIDE DEF Member
  <2> QED BY <1>1, <2>3
<1>13. h \notin Fresh => data'[h] = data[h] /\ IsMember(h)
  BY <1>3, <1>4 DEF Fresh
<1>14. Member(h, d.id) \in memb'[d.cluster]
  <2>1. CASE data[h] # NoData
    <3>1. Member(h, d.id) \in memb[d.cluster]
      BY <1>3, <2>1 DEF IsMember, MemberOn
    <3> QED BY <1>1, <3>1
  <2>2. CASE data[h] = NoData
    <3>1. \/ ctr[h].state = "new" /\ d.cluster = ctr[h].init /\ d.id = 0
          \/ Member(h, d.id) \in memb[d.cluster]
      BY <1>2, <2>2, BootFacts
    <3>2. CASE Member(h, d.id) \in memb[d.cluster]
      BY <1>1, <3>2
    <3>3. CASE ctr[h].state = "new" /\ d.cluster = ctr[h].init /\ d.id = 0
      <4>1. h \in d.cluster
        BY <3>3, NoContainerFacts DEF HostInv
      <4>2. Member(h, 0) \in Founders(d.cluster)
        BY <4>1 DEF Founders
      <4>3. memb[d.cluster] # {} => Member(h, 0) \in memb[d.cluster]
        BY <1>1, <2>2, <3>3 DEF OneCluster, Fresh
      <4> QED BY <1>1, <3>3, <4>2, <4>3
    <3> QED BY <3>1, <3>2, <3>3
  <2> QED BY <2>1, <2>2
<1>15. IsMember(h)'
  BY <1>4, <1>14 DEF IsMember, MemberOn
<1> QED BY <1>1, <1>2, <1>4, <1>5, <1>6, <1>7, <1>10, <1>11, <1>12, <1>13, <1>15

LEMMA BootView ==
  ASSUME Right, NEW h \in Hosts, Boot(h), HostInv'
  PROVE  ViewInv'
<1> USE DEF Right, ViewInv
<1>1. /\ UNCHANGED <<ctr, saved, pc, conf, cur, todo, list, existing, result>>
      /\ pc # "state" /\ h \notin up /\ ctr[h].started
      /\ Fresh' = Fresh \ {h} /\ up \subseteq up' /\ up' \subseteq up \cup {h}
      /\ \A x \in Hosts : x # h => data'[x] = data[x]
  BY BootChanges
<1>2. h \notin Fresh => data'[h] = data[h] /\ IsMember(h)
  BY BootChanges
<1>3. \A c \in Configs : memb[c] # {} => memb'[c] = memb[c]
  BY BootChanges
<1>4. /\ Claims' \subseteq Claims
      /\ \A c \in Configs : memb'[c] # memb[c] =>
            /\ memb'[c] = Founders(c) /\ c \in Claims
            /\ h \in Fresh /\ ctr[h].state = "new"
  BY BootChanges
<1>5. \A g \in Fresh', c \in Configs :
         Member(g, 0) \in announced'[c] => Member(g, 0) \in announced[c]
  BY BootChanges
<1>6. OneCluster'
  <2>1. \A g \in Fresh' : ctr[g].state = "new" /\ memb'[ctr[g].init] # {} =>
           Member(g, 0) \in memb'[ctr[g].init]
    <3> SUFFICES ASSUME NEW g \in Fresh', ctr[g].state = "new",
                        memb'[ctr[g].init] # {}
                 PROVE  Member(g, 0) \in memb'[ctr[g].init]
      OBVIOUS
    <3>1. /\ g \in Fresh /\ g \in Hosts /\ ctr[g].init \in Configs
          /\ g \in ctr[g].init
      BY <1>1, NoContainerFacts DEF HostInv, Fresh
    <3>2. CASE memb'[ctr[g].init] = memb[ctr[g].init]
      BY <3>1, <3>2 DEF OneCluster
    <3>3. CASE memb'[ctr[g].init] = Founders(ctr[g].init)
      BY <3>1, <3>3 DEF Founders
    <3> QED BY <1>4, <3>1, <3>2, <3>3
  <2>2. \A g \in Fresh', c \in Configs :
           ctr[g].state = "new" \/ (pc = "run" /\ cur = {}) =>
              Member(g, 0) \notin announced'[c]
    BY <1>1, <1>5 DEF OneCluster
  <2>3. \A c, d \in Claims' : c = d
    BY <1>4 DEF OneCluster
  <2> QED BY <1>1, <2>1, <2>2, <2>3 DEF OneCluster
<1>7. \A g \in Fresh' : CanBoot(g) => CanBoot(g)'
  <2> SUFFICES ASSUME NEW g \in Fresh', CanBoot(g) PROVE CanBoot(g)'
    OBVIOUS
  <2>1. g \in Hosts /\ g # h /\ data[g] = NoData /\ data'[g] = NoData
    BY <1>1 DEF Fresh
  <2>2. ctr'[g].started /\ g \notin up'
    BY <1>1, <2>1 DEF CanBoot
  <2>3. CASE MayBootstrap(g)
    <3>1. \A p \in up' : data'[p].cluster \in Configs
      BY <1>1 DEF HostInv, IsMember, TypeOK
    <3>2. ctr'[g].state = "new"
      BY <1>1, <2>3 DEF MayBootstrap
    <3>3. MayBootstrap(g)'
      BY <1>6, <3>1, <3>2 DEF OneCluster, MayBootstrap
    <3>4. BootData(g)' # {}
      BY <2>1, <3>3 DEF BootData
    <3> QED BY <2>1, <2>2, <3>4 DEF CanBoot
  <2>4. ASSUME NEW p \in Hosts, MayJoin(g, p) PROVE CanBoot(g)'
    <3>1. /\ p \in up /\ ctr[g].state = "existing" /\ p \in ctr[g].init \ {g}
          /\ HostsOf(memb[data[p].cluster]) = ctr[g].init
      BY <2>4 DEF MayJoin
    <3>2. data'[p] = data[p] /\ p \in up'
      BY <1>1, <3>1
    <3>3. memb'[data[p].cluster] = memb[data[p].cluster]
      BY <1>3, <3>1 DEF HostInv, IsMember
    <3>4. MayJoin(g, p)'
      BY <1>1, <3>1, <3>2, <3>3 DEF MayJoin, HostsOf
    <3>5. BootData(g)' # {}
      BY <2>1, <3>4 DEF BootData
    <3> QED BY <2>1, <2>2, <3>5 DEF CanBoot
  <2> QED BY <2>1, <2>3, <2>4 DEF CanBoot, BootData
<1>8. \A c \in Configs : HostsOf(memb[c])' = HostsOf(memb'[c])
  BY DEF HostsOf
<1>9. IdleInv'
  <2>1. \A c \in Configs : saved[c] # {} => memb'[c] = memb[c]
    BY <1>3 DEF EtcdInv
  <2> QED BY <1>1, <1>7, <1>8, <2>1 DEF IdleInv
<1>10. FirstRun'
  <2> SUFFICES ASSUME cur = {}, pc \in {"run", "save"} PROVE FirstRun'
    BY <1>1 DEF FirstRun
  <2>1. /\ Claims \subseteq {conf} /\ existing = {}
        /\ \A c \in Configs : saved[c] = {} /\ memb[c] \in {{}, Founders(conf)}
        /\ \A x \in Fresh : ctr[x] = IF x \in conf /\ (pc = "run" => x \notin list)
                                     THEN Founding(conf) ELSE NoContainer
    BY DEF FirstRun
  <2>2. \A c \in Configs : memb'[c] \in {{}, Founders(conf)}
    BY <1>4, <2>1
  <2> QED BY <1>1, <1>4, <2>1, <2>2 DEF FirstRun
<1>11. ASSUME LaterRun PROVE \A c \in Configs : memb'[c] = memb[c]
  BY <1>4, <1>11, NoFounder
<1>12. (LaterRun' <=> LaterRun) /\ Membership' = Membership /\ ReadyHosts' = ReadyHosts
  BY <1>1 DEF LaterRun, Membership, ReadyHosts
<1>13. MembersInv'
  BY <1>1, <1>8, <1>11, <1>12 DEF MembersInv
<1>14. FlagsInv'
  BY <1>1, <1>12 DEF FlagsInv
<1>15. PeerInv'
  <2>1. ASSUME LaterRun, pc = "reload" PROVE Unreloaded' \subseteq Unreloaded
    <3> SUFFICES ASSUME NEW x \in Unreloaded' PROVE x \in Unreloaded
      OBVIOUS
    <3>1. /\ x \in ReadyHosts /\ x \in Hosts /\ IsMember(x)'
          /\ IF x \in list THEN ctr[x] # NoContainer /\ ~ctr[x].started
             ELSE ctr[x] # Peered(ReadyHosts)
      BY <1>1, <1>12, HeadFacts DEF Unreloaded
    <3>2. x = h => h \notin Fresh
      BY <1>1, <2>1, <3>1 DEF FlagsInv, Membership
    <3>3. data'[x] = data[x]
      BY <1>1, <1>2, <3>1, <3>2
    <3>4. IsMember(x)
      BY <1>11, <2>1, <3>1, <3>3 DEF IsMember, MemberOn, HostInv
    <3> QED BY <3>1, <3>4 DEF Unreloaded
  <2>2. ASSUME LaterRun, pc = "reload", NEW c \in Configs, memb[c] # {}
        PROVE  2 * Cardinality(Unreloaded') < Cardinality(memb[c])
    <3>1. IsFiniteSet(Unreloaded)
      BY HeadFacts, EtcdAssumption, FS_Subset DEF Unreloaded
    <3>2. /\ IsFiniteSet(Unreloaded')
          /\ Cardinality(Unreloaded') <= Cardinality(Unreloaded)
      BY <2>1, <2>2, <3>1, FS_Subset
    <3>3. Cardinality(Unreloaded') \in Nat /\ Cardinality(Unreloaded) \in Nat
      BY <3>1, <3>2, FS_CardinalityType
    <3>4. Cardinality(memb[c]) \in Nat
      BY FS_CardinalityType DEF EtcdInv
    <3>5. 2 * Cardinality(Unreloaded) < Cardinality(memb[c])
      BY <2>2 DEF PeerInv
    <3> QED BY <3>2, <3>3, <3>4, <3>5
  <2>3. ASSUME LaterRun, pc = "reload"
        PROVE  \A c \in Configs : memb'[c] # {} =>
                  2 * Cardinality(Unreloaded') < Cardinality(memb'[c])
    BY <1>11, <2>2, <2>3
  <2>4. ASSUME LaterRun, pc \in {"add", "run", "save"}, Membership \ cur # {}
        PROVE  /\ Membership \subseteq existing
               /\ \E p \in up' : ctr'[p] = Peered(Membership)
    BY <1>1, <2>4 DEF PeerInv
  <2> QED BY <1>1, <1>12, <2>3, <2>4 DEF PeerInv
<1> QED BY <1>6, <1>9, <1>10, <1>13, <1>14, <1>15

LEMMA StutterView ==
  ASSUME Right, UNCHANGED vars
  PROVE  ViewInv'
<1> USE DEF Right, ViewInv, vars, hostVars, etcdVars, procVars
<1>1. \A h \in Hosts : CanBoot(h)' <=> CanBoot(h)
  BY SameBoot
<1>2. Fresh' = Fresh /\ Claims' = Claims /\ ReadyHosts' = ReadyHosts
  BY DEF Fresh, Claims, ReadyHosts
<1>3. IdleInv'
  BY <1>1, <1>2 DEF IdleInv, HostsOf, Fresh
<1>4. OneCluster' /\ FirstRun'
  BY <1>2 DEF OneCluster, FirstRun
<1>5. Membership' = Membership /\ (LaterRun' <=> LaterRun)
  BY <1>2 DEF Membership, LaterRun
<1>6. MembersInv' /\ FlagsInv'
  BY <1>2, <1>5 DEF MembersInv, FlagsInv, HostsOf
<1>7. Unreloaded' = Unreloaded
  BY <1>2 DEF Unreloaded, IsMember, MemberOn
<1>8. PeerInv'
  BY <1>5, <1>7 DEF PeerInv
<1> QED BY <1>3, <1>4, <1>6, <1>8

LEMMA ViewInit == Init => ViewInv
<1> SUFFICES ASSUME Init PROVE ViewInv
  OBVIOUS
<1>1. Fresh = Hosts /\ \A h \in Hosts : ctr[h].state # "new"
  BY NoContainerFacts DEF Init, Fresh
<1>2. Claims = {}
  BY <1>1 DEF Claims
<1>3. pc = "idle" /\ \A c \in Configs : saved[c] = {}
  BY DEF Init
<1>4. OneCluster
  BY <1>1, <1>2, <1>3 DEF OneCluster
<1>5. IdleInv /\ FirstRun /\ MembersInv /\ FlagsInv /\ PeerInv
  BY <1>3 DEF IdleInv, FirstRun, LaterRun, MembersInv, FlagsInv, PeerInv
<1> QED BY <1>4, <1>5 DEF ViewInv

\* A wrong view is not forgotten.
LEMMA AstrayStays == [Next]_vars /\ astray => astray'
<1> SUFFICES ASSUME [Next]_vars, astray PROVE astray'
  OBVIOUS
<1>1. CASE GetClusterState \/ RemoveEtcdMember
  BY <1>1 DEF GetClusterState, RemoveEtcdMember
<1>2. CASE ReloadHost \/ RunEtcdPlane
  BY <1>2 DEF ReloadHost, RunEtcdPlane, RunContainer, Fail
<1>3. CASE AddEtcdMember \/ CheckHealth \/ SaveClusterState \/ Abort
  BY <1>3 DEF AddEtcdMember, CheckHealth, SaveClusterState, Abort, Fail
<1>4. CASE ReconcileHost \/ Deleted \/ Added \/ RunKubeAPI \/
           (\E c \in Configs : StartUp(c)) \/ (\E h \in Hosts : Boot(h))
  BY <1>4 DEF ReconcileHost, Deleted, Added, RunKubeAPI, StartUp, Boot
<1>5. CASE UNCHANGED vars
  BY <1>5 DEF vars
<1> QED BY <1>1, <1>2, <1>3, <1>4, <1>5 DEF Next, RkeStep

LEMMA HastyStays == [Next]_vars /\ hasty => hasty'
<1> SUFFICES ASSUME [Next]_vars, hasty PROVE hasty'
  OBVIOUS
<1>1. CASE GetClusterState \/ RemoveEtcdMember
  BY <1>1 DEF GetClusterState, RemoveEtcdMember
<1>2. CASE ReloadHost \/ RunEtcdPlane
  BY <1>2 DEF ReloadHost, RunEtcdPlane, RunContainer, Fail
<1>3. CASE AddEtcdMember \/ CheckHealth \/ SaveClusterState \/ Abort
  BY <1>3 DEF AddEtcdMember, CheckHealth, SaveClusterState, Abort, Fail
<1>4. CASE ReconcileHost \/ Deleted \/ Added \/ RunKubeAPI \/
           (\E c \in Configs : StartUp(c)) \/ (\E h \in Hosts : Boot(h))
  BY <1>4 DEF ReconcileHost, Deleted, Added, RunKubeAPI, StartUp, Boot
<1>5. CASE UNCHANGED vars
  BY <1>5 DEF vars
<1> QED BY <1>1, <1>2, <1>3, <1>4, <1>5 DEF Next, RkeStep

LEMMA ViewStep ==
  ASSUME Right, [Next]_vars, ~astray', HostInv'
  PROVE  ViewInv'
<1>1. ASSUME NEW c \in Configs, StartUp(c) PROVE ViewInv'
  BY <1>1, StartUpView
<1>2. CASE GetClusterState
  BY <1>2, GetClusterStateView
<1>3. CASE RemoveEtcdMember
  BY <1>3, RemoveEtcdMemberView
<1>4. CASE ReconcileHost
  BY <1>4, ReconcileHostView
<1>5. CASE Deleted \/ Added
  BY <1>5, DeletedView, AddedView
<1>6. CASE AddEtcdMember
  <2>1. Fail => /\ UNCHANGED <<ctr, data, memb, announced, saved>>
                /\ pc # "state"
    BY <1>6 DEF AddEtcdMember, Fail, Goto, hostVars
  <2> QED BY <1>6, <2>1, AddEtcdMemberView, AbortView
<1>7. CASE ReloadHost
  BY <1>7, ReloadHostView
<1>8. CASE CheckHealth
  <2>1. Fail => /\ UNCHANGED <<ctr, data, memb, announced, saved>>
                /\ pc # "state"
    BY <1>8 DEF CheckHealth, hostVars, etcdVars
  <2> QED BY <1>8, <2>1, CheckHealthView, AbortView
<1>9. CASE RunEtcdPlane
  BY <1>9, RunEtcdPlaneView
<1>10. CASE RunKubeAPI
  BY <1>10, RunKubeAPIView
<1>11. CASE SaveClusterState
  <2>1. Fail => /\ UNCHANGED <<ctr, data, memb, announced, saved>>
                /\ pc # "state"
    BY <1>11 DEF SaveClusterState, Fail, hostVars
  <2> QED BY <1>11, <2>1, SaveClusterStateView, AbortView
<1>12. CASE Abort
  <2>1. UNCHANGED <<ctr, data, memb, announced, saved>>
    BY <1>12 DEF Abort, hostVars, etcdVars
  <2> QED BY <1>12, <2>1, AbortInStateView, AbortView
<1>13. ASSUME NEW h \in Hosts, Boot(h) PROVE ViewInv'
  BY <1>13, BootView
<1>14. CASE UNCHANGED vars
  BY <1>14, StutterView
<1> QED BY <1>1, <1>2, <1>3, <1>4, <1>5, <1>6, <1>7, <1>8, <1>9, <1>10, <1>11,
           <1>12, <1>13, <1>14 DEF Next, RkeStep

-----------------------------------------------------------------------------
(* The theorems.                                                            *)

\* The inductive invariant: whatever happens, the process is where its work
\* lists say, containers and data belong together and every member has an id
\* of its own; and as long as every run's view of etcd was right and none began
\* before etcd had come up, there is one cluster, whose members are the hosts of
\* the stage the run has reached.
THEOREM EtcdClusterInvariant == Spec => []EtcdClusterInv
<1>1. Init => EtcdClusterInv
  BY TypeInit, ProcInit, HostInit, IdsInit, ViewInit DEF EtcdClusterInv
<1>2. EtcdClusterInv /\ [Next]_vars => EtcdClusterInv'
  <2> SUFFICES ASSUME EtcdClusterInv, [Next]_vars PROVE EtcdClusterInv'
    OBVIOUS
  <2>1. TypeOK /\ ProcInv /\ HostInv /\ EtcdInv /\ IdsInv
    BY DEF EtcdClusterInv
  <2>2. TypeOK' /\ ProcInv' /\ HostInv' /\ EtcdInv' /\ IdsInv'
    BY <2>1, TypeStep, ProcStep, HostStep, IdsStep
  <2>3. ASSUME ~astray', ~hasty' PROVE ViewInv'
    <3>1. ~astray /\ ~hasty
      BY <2>3, AstrayStays, HastyStays
    <3>2. Right
      BY <2>1, <3>1 DEF EtcdClusterInv, Right
    <3> QED BY <2>2, <2>3, <3>2, ViewStep
  <2> QED BY <2>2, <2>3 DEF EtcdClusterInv
<1> QED BY <1>1, <1>2, PTL DEF Spec

\* No split brain: rke never brings two etcd clusters to take requests side by
\* side, for any number of hosts, runs, errors and crashes, if each run leaves
\* etcd the time to come up.
THEOREM OneQuorumHolds == Spec => [](~hasty => OneQuorum)
<1>1. EtcdClusterInv => (~hasty => OneQuorum)
  <2> SUFFICES ASSUME EtcdClusterInv, ~astray, ~hasty,
                      NEW c \in Configs, NEW d \in Configs,
                      NEW g \in Serving(c), NEW h \in Serving(d)
               PROVE  c = d
    BY DEF OneQuorum
  <2>1. /\ g \in Hosts \ Fresh /\ data[g].cluster = c
        /\ h \in Hosts \ Fresh /\ data[h].cluster = d
    BY ServingFacts DEF EtcdClusterInv
  <2>2. c \in Claims /\ d \in Claims
    BY <2>1 DEF Claims
  <2> QED BY <2>2 DEF EtcdClusterInv, ViewInv, OneCluster
<1> QED BY <1>1, EtcdClusterInvariant, PTL

\* A member that a run leaves without its data, and unable to get it, is one
\* that an earlier run left so, or one that the reload has yet to come to.
THEOREM MembersIntactHolds == Spec => []MembersIntact
<1>1. EtcdClusterInv => MembersIntact
  <2> SUFFICES ASSUME EtcdClusterInv, ~astray, ~hasty,
                      pc # "state", result # "err",
                      NEW c \in Configs, saved[c] # {},
                      NEW m \in memb[c], m \notin Intact(c)
               PROVE  m.host \in Residue \/ (pc = "reload" /\ m.host \in conf \ cur)
    BY DEF MembersIntact, HostsOf
  <2> DEFINE h == m.host
  <2>1. Right
    BY DEF EtcdClusterInv, Right
  <2> USE DEF Right, ViewInv
  <2>2. h \in Hosts /\ h \in HostsOf(memb[c]) /\ MemberOn(h) # m /\ ~CanBoot(h)
    BY <2>1, HostsOfFacts DEF Intact, TypeOK
  <2> HIDE DEF h
  <2>3. CASE h \notin Fresh
    <3>1. data[h] # NoData /\ data[h].cluster = c
      BY <2>1, <2>2, <2>3, OneMembership DEF Fresh
    <3>2. MemberOn(h).host = h
      BY DEF MemberOn, Member
    <3>3. ~IsMember(h)
      BY <2>1, <2>2, <3>1, <3>2 DEF IsMember, EtcdInv, h
    <3> QED BY <2>2, <3>1, <3>3 DEF Residue, h
  <2>4. CASE h \in Fresh
    <3>1. pc # "idle"
      BY <2>1, <2>2, <2>4 DEF IdleInv
    <3>2. pc \in {"delete", "delete_node", "add", "reload", "run", "save"}
      BY <2>1, <3>1 DEF TypeOK, Stages
    <3>3. cur # {}
      BY <2>1, <3>2 DEF ProcInv, FirstRun
    <3>4. LaterRun
      BY <3>2, <3>3 DEF LaterRun
    <3>5. h \in Membership /\ h \notin cur \cap conf
      BY <2>1, <2>2, <2>4, <3>4 DEF MembersInv
    <3>6. pc \notin {"delete", "delete_node"}
      BY <2>1, <2>4, <3>4, <3>5 DEF MembersInv, Membership
    <3>7. pc \notin {"add", "run", "save"}
      BY <2>1, <2>2, <2>4, <3>4, <3>5, PeerBoots
    <3>8. pc = "reload" /\ h \in ReadyHosts
      BY <3>2, <3>5, <3>6, <3>7 DEF Membership
    <3> QED BY <3>5, <3>8 DEF ReadyHosts, h
  <2> QED BY <2>3, <2>4
<1> QED BY <1>1, EtcdClusterInvariant, PTL

-----------------------------------------------------------------------------
(* What a run without errors of its own comes to.                           *)

\* A cluster all of whose members serve takes requests.
LEMMA AllServe ==
  ASSUME TypeOK, HostInv, EtcdInv, NEW c \in Configs, memb[c] # {},
         HostsOf(memb[c]) \subseteq Serving(c)
  PROVE  Quorum(c)
<1>1. IsFiniteSet(memb[c]) /\ \A m, n \in memb[c] : m.host = n.host => m = n
  BY DEF EtcdInv
<1>2. [m \in memb[c] |-> m.host] \in Injection(memb[c], Serving(c))
  <2>1. \A m \in memb[c] : m.host \in Serving(c)
    BY HostsOfFacts
  <2> QED BY <1>1, <2>1 DEF Injection, IsInjective
<1>3. IsFiniteSet(Serving(c))
  <2>1. Serving(c) \in SUBSET Hosts
    BY DEF Serving, TypeOK
  <2> QED BY <2>1, EtcdAssumption, FS_Subset
<1>4. Cardinality(memb[c]) <= Cardinality(Serving(c))
  BY <1>2, <1>3, FS_Injection
<1>5. Cardinality(memb[c]) \in Nat /\ Cardinality(Serving(c)) \in Nat
  BY <1>1, <1>3, FS_CardinalityType
<1>6. Cardinality(memb[c]) # 0
  BY <1>1, FS_EmptySet
<1>7. 2 * Cardinality(Serving(c)) > Cardinality(memb[c])
  BY <1>4, <1>5, <1>6
<1> QED BY <1>7 DEF Quorum

\* A member in order serves in the end.
LEMMA InOrderServes ==
  ASSUME TypeOK, Settled, NEW h \in Hosts, data[h] # NoData, h \notin Residue
  PROVE  h \in up
BY DEF Settled, CanBoot, BootData, Residue

\* When no member is about to come up, all members of the later run's stage
\* serve, if nothing stands in the way.
LEMMA LaterAnswers ==
  ASSUME Right, Settled, LaterRun, Residue \cap conf = {},
         pc \in {"add", "reload", "save"}, pc = "reload" => list = {}
  PROVE  /\ \E h \in Membership : Answers(h)
         /\ \A h \in Membership : Answers(h) /\
               HostsOf(memb[data[h].cluster]) = Membership
<1> USE DEF Right, ViewInv
<1>1. Membership \subseteq conf /\ cur \cap conf \subseteq Membership
  BY DEF Membership, ReadyHosts, ProcInv
<1>2. cur \cap conf # {} /\ Fresh \cap cur \cap conf = {}
  BY DEF MembersInv
<1>3. \A h \in Membership \ Fresh : h \in up
  BY <1>1, InOrderServes DEF Fresh, TypeOK
<1>4. PICK p \in cur \cap conf : p \in Membership \ Fresh /\ p \in up
  BY <1>1, <1>2, <1>3
<1>5. p \in Hosts /\ data[p] # NoData
  BY <1>1, <1>4 DEF TypeOK, Fresh
<1> DEFINE c == data[p].cluster
<1>6. c \in Configs /\ memb[c] # {}
  BY <1>5 DEF HostInv
<1>7. HostsOf(memb[c]) = Membership
  BY <1>6 DEF MembersInv
<1>8. Membership \cap Fresh = {}
  <2> SUFFICES ASSUME NEW h \in Membership, h \in Fresh PROVE FALSE
    OBVIOUS
  <2>1. h \in Hosts /\ data[h] = NoData /\ h \notin up
    BY DEF Fresh, HostInv, IsMember
  <2>2. ctr[h] = Peered(Membership)
    BY DEF FlagsInv
  <2>3. /\ Peered(Membership).started /\ Peered(Membership).init = Membership
        /\ Peered(Membership).state = "existing"
    BY DEF Peered
  <2>4. MayJoin(h, p)
    BY <1>4, <1>7, <2>1, <2>2, <2>3 DEF MayJoin
  <2>5. BootData(h) # {}
    BY <1>5, <2>1, <2>4 DEF BootData
  <2> QED BY <2>1, <2>2, <2>3, <2>5 DEF CanBoot, Settled
<1>9. \A h \in Membership : h \in up /\ data[h].cluster = c
  <2>1. \A h \in Membership : h \in Hosts \ Fresh
    BY <1>1, <1>8 DEF TypeOK
  <2> QED BY <1>3, <1>6, <2>1, OneMembership
<1>10. Membership \subseteq Serving(c)
  BY <1>9 DEF Serving
<1>11. Quorum(c)
  BY <1>6, <1>7, <1>10, AllServe
<1> QED BY <1>4, <1>7, <1>9, <1>11 DEF Answers

\* The same at the end of a first run.
LEMMA FirstAnswers ==
  ASSUME Right, Settled, cur = {}, pc = "save", Residue \cap conf = {}
  PROVE  \E h \in conf : Answers(h)
<1> USE DEF Right, ViewInv
<1>1. /\ conf \in Configs /\ Claims \subseteq {conf}
      /\ \A c \in Configs : memb[c] \in {{}, Founders(conf)}
      /\ \A h \in Fresh : h \in conf => ctr[h] = Founding(conf)
  BY DEF FirstRun, ProcInv
<1>2. \A h \in conf : h \in Hosts \ Fresh
  BY <1>1, FounderBoots DEF Settled, TypeOK, Fresh
<1>3. \A h \in conf : h \in up /\ data[h].cluster = conf
  <2>1. \A h \in conf : data[h].cluster \in Claims
    BY <1>2 DEF Claims
  <2> QED BY <1>1, <1>2, <2>1, InOrderServes DEF Fresh
<1>4. PICK p \in conf : TRUE
  BY <1>1, FoundersFacts
<1>5. memb[conf] # {}
  BY <1>2, <1>3, <1>4 DEF HostInv, Fresh
<1>6. HostsOf(memb[conf]) = conf
  BY <1>1, <1>5, FoundersFacts
<1>7. conf \subseteq Serving(conf)
  BY <1>3 DEF Serving
<1>8. Quorum(conf)
  BY <1>1, <1>5, <1>6, <1>7, AllServe
<1> QED BY <1>3, <1>4, <1>8 DEF Answers

\* A run that ends with an error although nothing failed in it has met
\* something that an earlier one left behind.
LEMMA FailedClean ==
  ASSUME Right, Next, pc # "idle", result' = "err", ~Fault
  PROVE  Residue \cap conf # {}
<1> USE DEF Right, ViewInv
<1>1. result # "err"
  BY DEF ProcInv
<1>2. ASSUME NEW h \in Hosts, h \in conf, NEW S \in SUBSET Hosts,
             RunContainer(h, EtcdConfig(h, S))
      PROVE  Residue \cap conf # {}
  <2>1. h \in parked
    <3>1. \/ UNCHANGED result
          \/ Fault \/ h \in parked
      BY <1>2, RunEffect
    <3> QED BY <1>1, <3>1
  <2> QED BY <1>2, <2>1 DEF Residue
<1>3. CASE ReloadHost
  <2>1. First(list) \in conf /\ First(list) \in Hosts /\ ReadyHosts \in SUBSET Hosts
    BY <1>3, HeadFacts DEF ReloadHost, ProcInv, ReadyHosts
  <2> QED BY <1>2, <1>3, <2>1 DEF ReloadHost
<1>4. CASE RunEtcdPlane
  <2>1. First(list) \in conf /\ First(list) \in Hosts /\ conf \in SUBSET Hosts
    BY <1>4, HeadFacts DEF RunEtcdPlane, ProcInv, TypeOK
  <2> QED BY <1>2, <1>4, <2>1 DEF RunEtcdPlane
<1>5. CASE AddEtcdMember
  <2>1. /\ pc = "add" /\ Settled /\ cur # {} /\ First(todo) \in todo
        /\ {e \in conf : /\ Answers(e)
                         /\ First(todo) \notin HostsOf(memb[data[e].cluster])} = {}
    BY <1>1, <1>5, HeadFacts DEF AddEtcdMember, Goto, ProcInv
  <2>2. LaterRun /\ Membership = conf \ todo
    BY <2>1 DEF LaterRun, Membership
  <2> QED BY <2>1, <2>2, LaterAnswers
<1>6. CASE CheckHealth
  <2>1. pc = "reload" /\ list = {} /\ Settled /\ cur # {} /\ ~IsEtcdHealthy(ReadyHosts)
    BY <1>1, <1>6 DEF CheckHealth, Goto, ProcInv
  <2>2. LaterRun /\ Membership = ReadyHosts
    BY <2>1 DEF LaterRun, Membership
  <2> QED BY <2>1, <2>2, LaterAnswers DEF IsEtcdHealthy
<1>7. CASE SaveClusterState
  <2>1. /\ pc = "save" /\ Settled /\ endpoints = conf
        /\ \A h \in endpoints : ~Answers(h)
    BY <1>1, <1>7 DEF SaveClusterState, ProcInv
  <2>2. cur # {} => LaterRun /\ Membership = conf
    BY <2>1 DEF LaterRun, Membership
  <2> QED BY <2>1, <2>2, LaterAnswers, FirstAnswers
<1>8. CASE Abort
  BY <1>8 DEF Abort
<1>9. CASE GetClusterState \/ RemoveEtcdMember \/ ReconcileHost \/ Deleted \/ Added
           \/ RunKubeAPI \/ (\E h \in Hosts : Boot(h))
           \/ (\E c \in Configs : StartUp(c))
  BY <1>1, <1>9 DEF GetClusterState, RemoveEtcdMember, ReconcileHost, Deleted,
     Added, RunKubeAPI, Boot, StartUp, Goto
<1> QED BY <1>3, <1>4, <1>5, <1>6, <1>7, <1>8, <1>9 DEF Next, RkeStep

\* A run in which nothing fails succeeds, unless it takes etcd for something it
\* is not, finds on a configured host what an earlier run left there, or it or
\* an earlier one began before etcd had come up.
THEOREM CleanRunSucceedsHolds == Spec => CleanRunSucceeds
<1>1. EtcdClusterInv /\ [Next]_vars =>
         [pc # "idle" /\ result' = "err" /\ clean'
          => astray \/ hasty \/ Residue \cap conf # {}]_vars
  <2> SUFFICES ASSUME EtcdClusterInv, Next, pc # "idle", result' = "err", clean',
                      ~astray, ~hasty
               PROVE  Residue \cap conf # {}
    OBVIOUS
  <2>1. Right
    BY DEF EtcdClusterInv, Right
  <2>2. ~Fault
    BY DEF Fault
  <2> QED BY <2>1, <2>2, FailedClean
<1> QED BY <1>1, EtcdClusterInvariant, PTL DEF Spec, CleanRunSucceeds

-----------------------------------------------------------------------------
(* What runs without any error come to.                                     *)

\* A cluster that takes requests with fewer serving members took them before.
LEMMA FewerServe ==
  ASSUME TypeOK, EtcdInv, NEW c \in Configs, Serving(c)' \subseteq Serving(c),
         memb[c] \subseteq memb'[c], IsFiniteSet(memb'[c]), Quorum(c)'
  PROVE  Quorum(c)
<1>1. IsFiniteSet(Serving(c))
  <2>1. Serving(c) \in SUBSET Hosts
    BY DEF Serving, TypeOK
  <2> QED BY <2>1, EtcdAssumption, FS_Subset
<1>2. /\ IsFiniteSet(Serving(c)')
      /\ Cardinality(Serving(c)') <= Cardinality(Serving(c))
  BY <1>1, FS_Subset
<1>3. Cardinality(memb[c]) <= Cardinality(memb'[c]) /\ IsFiniteSet(memb[c])
  BY FS_Subset
<1>4. /\ Cardinality(memb[c]) \in Nat /\ Cardinality(memb'[c]) \in Nat
      /\ Cardinality(Serving(c)) \in Nat /\ Cardinality(Serving(c)') \in Nat
  BY <1>1, <1>2, <1>3, FS_CardinalityType
<1>5. 2 * Cardinality(Serving(c)') > Cardinality(memb'[c])
  BY DEF Quorum
<1>6. 2 * Cardinality(Serving(c)) > Cardinality(memb[c])
  BY <1>2, <1>3, <1>4, <1>5
<1> QED BY <1>6 DEF Quorum

LEMMA NamesStep ==
  TypeOK /\ ProcInv /\ HostInv /\ EtcdInv /\ NamesInv /\ [Next]_vars /\ EtcdInv'
  => NamesInv'
<1> SUFFICES ASSUME TypeOK, ProcInv, HostInv, EtcdInv, NamesInv, [Next]_vars,
                    EtcdInv', NEW c \in Configs, NEW h \in Hosts, Quorum(c)',
                    h \in Serving(c)'
             PROVE  MemberOn(h)' \in announced'[c]
  BY DEF NamesInv
<1> USE DEF hostVars, etcdVars, procVars
<1>1. ASSUME Quorum(c), h \in Serving(c), data'[h] = data[h],
             announced[c] \subseteq announced'[c]
      PROVE  MemberOn(h)' \in announced'[c]
  BY <1>1 DEF NamesInv, MemberOn
<1>2. IsFiniteSet(memb'[c])
  BY DEF EtcdInv
<1>3. ASSUME up' \subseteq up, UNCHANGED data, memb[c] \subseteq memb'[c],
             announced'[c] = announced[c]
      PROVE  MemberOn(h)' \in announced'[c]
  <2>1. Serving(c)' \subseteq Serving(c)
    BY <1>3 DEF Serving
  <2>2. Quorum(c)
    BY <1>2, <1>3, <2>1, FewerServe
  <2> QED BY <1>1, <1>3, <2>1, <2>2
<1>4. CASE RemoveEtcdMember
  <2> DEFINE g == First(todo)
             through == {e \in conf : Answers(e) /\ Named(e, g) # {}}
             f == First(through)
  <2>1. UNCHANGED <<data, announced>>
    BY <1>4 DEF RemoveEtcdMember
  <2>2. CASE UNCHANGED <<memb, up>>
    BY <1>3, <2>1, <2>2
  <2>3. CASE /\ through # {}
             /\ memb' = [memb EXCEPT ![data[f].cluster] = @ \ Named(f, g)]
             /\ up' = IF data[g].cluster = data[f].cluster THEN up \ {g} ELSE up
    <3>1. Answers(f)
      <4>1. through \in SUBSET Hosts
        BY DEF TypeOK
      <4>2. f \in through
        BY <2>3, <4>1, FirstFacts
      <4> QED BY <4>2
    <3>2. up' \subseteq up
      BY <2>3
    <3>3. CASE c = data[f].cluster
      <4>1. Quorum(c) /\ h \in Serving(c)
        BY <2>1, <3>1, <3>2, <3>3 DEF Answers, Serving
      <4> QED BY <1>1, <2>1, <4>1
    <3>4. CASE c # data[f].cluster
      <4>1. memb'[c] = memb[c]
        BY <2>3, <3>4 DEF TypeOK
      <4> QED BY <1>3, <2>1, <3>2, <4>1
    <3> QED BY <3>3, <3>4
  <2> QED BY <1>4, <2>2, <2>3 DEF RemoveEtcdMember
<1>5. CASE ReconcileHost
  <2>1. \A x \in Hosts : x \in up' => x \in up
    BY <1>5 DEF ReconcileHost
  <2>2. up' \subseteq up
    BY <1>5 DEF ReconcileHost
  <2>3. First(todo) \in Hosts
    BY <1>5, HeadFacts DEF ReconcileHost, ProcInv
  <2>4. \A x \in Hosts : data'[x] \in {data[x], NoData}
    BY <1>5, <2>3 DEF ReconcileHost, TypeOK
  <2>5. NoData.cluster # c
    BY EtcdAssumption DEF NoData
  <2>6. \A x \in Serving(c)' : x \in up /\ x \in Hosts /\ data'[x].cluster = c
    BY <2>2 DEF Serving, TypeOK
  <2>7. \A x \in Serving(c)' : data'[x] = data[x] /\ x \in Serving(c)
    BY <2>4, <2>5, <2>6 DEF Serving
  <2>8. memb'[c] = memb[c] /\ announced'[c] = announced[c]
    BY <1>5, <2>6 DEF ReconcileHost, Remaining
  <2>9. Quorum(c)
    BY <1>2, <2>7, <2>8, FewerServe
  <2> QED BY <1>1, <2>7, <2>8, <2>9
<1>6. CASE AddEtcdMember
  <2>1. memb[c] \subseteq memb'[c]
    BY <1>6 DEF AddEtcdMember, TypeOK
  <2> QED BY <1>3, <1>6, <2>1 DEF AddEtcdMember
<1>7. CASE ReloadHost \/ RunEtcdPlane
  <2>1. up' \subseteq up
    BY <1>7 DEF ReloadHost, RunEtcdPlane, RunContainer, SetContainer
  <2> QED BY <1>3, <1>7, <2>1 DEF ReloadHost, RunEtcdPlane
<1>8. ASSUME NEW g \in Hosts, Boot(g) PROVE MemberOn(h)' \in announced'[c]
  <2>1. PICK d \in BootData(g) :
          /\ d.cluster \in Configs
          /\ data' = [data EXCEPT ![g] = d]
          /\ c # d.cluster => memb'[c] = memb[c] /\ announced'[c] = announced[c]
          /\ up' \subseteq up \cup {g}
          /\ c = d.cluster =>
                announced'[c] = announced[c] \cup
                   {Member(x, data'[x].id) : x \in Serving(c)'}
    BY <1>8, BootEffect
  <2>2. CASE c = d.cluster
    BY <2>1, <2>2 DEF MemberOn
  <2>3. CASE c # d.cluster
    <3>1. \A x \in Serving(c)' : x \in up' /\ data'[x].cluster = c
      BY DEF Serving
    <3>2. \A x \in Hosts : data'[x] = IF x = g THEN d ELSE data[x]
      BY <2>1 DEF TypeOK
    <3>3. g \notin Serving(c)'
      BY <2>3, <3>1, <3>2
    <3>4. \A x \in Serving(c)' : x \in up /\ x \in Hosts
      BY <2>1, <3>1, <3>3 DEF TypeOK
    <3>5. \A x \in Serving(c)' : x \in Serving(c) /\ data'[x] = data[x]
      BY <3>1, <3>2, <3>3, <3>4 DEF Serving
    <3>6. Quorum(c)
      BY <1>2, <2>1, <2>3, <3>5, FewerServe
    <3> QED BY <1>1, <2>1, <2>3, <3>5, <3>6
  <2> QED BY <2>2, <2>3
<1>9. CASE GetClusterState \/ Deleted \/ Added \/ RunKubeAPI \/ CheckHealth
           \/ Abort \/ SaveClusterState \/ (\E d \in Configs : StartUp(d))
  BY <1>3, <1>9 DEF GetClusterState, Deleted, Added, RunKubeAPI, CheckHealth,
     Abort, SaveClusterState, StartUp
<1>10. CASE UNCHANGED vars
  BY <1>3, <1>10 DEF vars
<1> QED BY <1>4, <1>5, <1>6, <1>7, <1>8, <1>9, <1>10 DEF Next, RkeStep

LEMMA FaultsStay ==
  ASSUME TypeOK, [Next]_vars, faults' = 0
  PROVE  faults = 0 /\ ~Fault
<1>1. ~Fault
  BY FaultFacts
<1>2. ASSUME NEW h, NEW want, RunContainer(h, want)
      PROVE  faults' = faults \/ Fault
  BY <1>2 DEF RunContainer
<1>3. faults' = faults \/ Fault
  <2>1. CASE GetClusterState \/ RemoveEtcdMember \/ ReconcileHost
    BY <2>1 DEF GetClusterState, RemoveEtcdMember, ReconcileHost, Goto
  <2>2. CASE ReloadHost \/ RunEtcdPlane
    BY <1>2, <2>2 DEF ReloadHost, RunEtcdPlane
  <2>3. CASE AddEtcdMember \/ CheckHealth \/ SaveClusterState \/ Abort
    BY <2>3 DEF AddEtcdMember, CheckHealth, SaveClusterState, Abort, Goto
  <2>4. CASE Deleted \/ Added \/ RunKubeAPI \/ (\E c \in Configs : StartUp(c))
             \/ (\E h \in Hosts : Boot(h)) \/ UNCHANGED vars
    BY <2>4 DEF Deleted, Added, RunKubeAPI, StartUp, Boot, vars, Goto
  <2> QED BY <2>1, <2>2, <2>3, <2>4 DEF Next, RkeStep
<1> QED BY <1>1, <1>3

LEMMA NothingLeft ==
  ASSUME AllInOrder, pc # "delete_node"
  PROVE  Residue = {}
BY DEF AllInOrder, Residue, Fresh

\* As long as nothing fails and the view of etcd is right, all stays in order.
LEMMA InOrderStep ==
  ASSUME Right, AllInOrder, [Next]_vars, ~astray', ~Fault
  PROVE  AllInOrder'
<1> USE DEF Right, ViewInv, hostVars, etcdVars, procVars
<1>1. ASSUME UNCHANGED <<ctr, parked, data, memb>>, pc # "delete_node",
             pc' \notin {"idle", "state"}, result' # "err"
      PROVE  AllInOrder'
  <2>1. Fresh' = Fresh /\ \A h \in Hosts : IsMember(h)' <=> IsMember(h)
    BY <1>1 DEF Fresh, IsMember, MemberOn
  <2> QED BY <1>1, <2>1 DEF AllInOrder
<1>2. ASSUME NEW c \in Configs, StartUp(c) PROVE AllInOrder'
  <2>1. Fresh' = Fresh /\ \A h \in Hosts : IsMember(h)' <=> IsMember(h)
    BY <1>2 DEF StartUp, Fresh, IsMember, MemberOn
  <2> QED BY <1>2, <2>1 DEF StartUp, AllInOrder, HostsOf
<1>3. CASE GetClusterState
  BY <1>1, <1>3 DEF GetClusterState, AllInOrder
<1>4. CASE RemoveEtcdMember
  <2> DEFINE h == First(todo)
             through == {e \in conf : Answers(e) /\ Named(e, h) # {}}
             f == First(through)
  <2>1. /\ memb' = [memb EXCEPT ![data[f].cluster] = @ \ Named(f, h)]
        /\ pc = "delete" /\ pc' = "delete_node"
        /\ UNCHANGED <<ctr, parked, data, todo, result>>
    BY <1>4 DEF RemoveEtcdMember, Goto
  <2>2. Fresh' = Fresh
    BY <2>1 DEF Fresh
  <2>3. ASSUME NEW x \in Hosts \ Fresh, x # h PROVE IsMember(x)'
    <3>1. /\ data[x] # NoData /\ MemberOn(x) \in memb[data[x].cluster]
          /\ data[x].cluster \in Configs
      BY <2>1 DEF AllInOrder, IsMember, HostInv, Fresh
    <3>2. MemberOn(x).host = x
      BY DEF MemberOn, Member
    <3>3. MemberOn(x) \notin Named(f, h)
      BY <2>3, <3>2 DEF Named
    <3>4. MemberOn(x) \in memb'[data[x].cluster]
      BY <2>1, <3>1, <3>3 DEF TypeOK
    <3> QED BY <2>1, <3>1, <3>4 DEF IsMember, MemberOn
  <2> HIDE DEF h
  <2> QED BY <2>1, <2>2, <2>3 DEF AllInOrder, h
<1>5. CASE ReconcileHost
  <2> DEFINE h == First(todo)
  <2>1. h \in Hosts /\ h \in todo
    BY <1>5, HeadFacts DEF ReconcileHost, ProcInv
  <2> HIDE DEF h
  <2>2. /\ ctr' = [ctr EXCEPT ![h] = NoContainer]
        /\ data' = [data EXCEPT ![h] = NoData]
        /\ memb' = Remaining(memb, data')
        /\ pc = "delete_node" /\ pc' = "delete" /\ UNCHANGED <<parked, result>>
    BY <1>5 DEF ReconcileHost, h
  <2>3. \A x \in Hosts : /\ x # h => ctr'[x] = ctr[x] /\ data'[x] = data[x]
                         /\ ctr'[h] = NoContainer /\ data'[h] = NoData
    BY <2>1, <2>2 DEF TypeOK
  <2>4. ASSUME NEW x \in Hosts, data'[x] # NoData
        PROVE  IsMember(x)' /\ ctr'[x].started
    <3>1. x # h /\ data'[x] = data[x] /\ ctr'[x] = ctr[x]
      BY <2>3, <2>4
    <3>2. IsMember(x) /\ ctr[x].started /\ data[x].cluster \in Configs
      BY <2>4, <3>1 DEF AllInOrder, Fresh, HostInv, h
    <3>3. memb'[data[x].cluster] = memb[data[x].cluster]
      BY <2>2, <3>1, <3>2 DEF Remaining
    <3> QED BY <3>1, <3>2, <3>3 DEF IsMember, MemberOn
  <2> QED BY <2>2, <2>3, <2>4 DEF AllInOrder, Fresh
<1>6. CASE Deleted \/ Added \/ RunKubeAPI
  BY <1>1, <1>6 DEF Deleted, Added, RunKubeAPI, Goto, AllInOrder
<1>7. result' # "err"
  <2>1. CASE pc = "idle"
    <3>1. (\E c \in Configs : StartUp(c)) \/ (\E h \in Hosts : Boot(h)) \/ UNCHANGED vars
      BY <2>1 DEF Next, RkeStep, Abort, GetClusterState, RemoveEtcdMember,
         ReconcileHost, Deleted, Added, RunKubeAPI, AddEtcdMember, ReloadHost,
         CheckHealth, RunEtcdPlane, SaveClusterState
    <3> QED BY <3>1 DEF StartUp, Boot, vars, AllInOrder
  <2>2. CASE pc # "idle" /\ pc # "delete_node"
    <3>1. Residue \cap conf = {}
      BY <2>2, NothingLeft
    <3> QED BY <2>2, <3>1, FailedClean DEF vars, AllInOrder
  <2>3. CASE pc = "delete_node"
    <3>1. ReconcileHost \/ Abort \/ (\E h \in Hosts : Boot(h)) \/ UNCHANGED vars
      BY <2>3 DEF Next, RkeStep, StartUp, GetClusterState, RemoveEtcdMember,
         Deleted, Added, RunKubeAPI, AddEtcdMember, ReloadHost, CheckHealth,
         RunEtcdPlane, SaveClusterState
    <3> QED BY <3>1 DEF ReconcileHost, Abort, Boot, vars, AllInOrder
  <2> QED BY <2>1, <2>2, <2>3
<1>8. ~Fail
  BY <1>7 DEF Fail
<1>9. CASE AddEtcdMember
  <2>1. /\ \A c \in Configs : memb[c] \subseteq memb'[c]
        /\ pc = "add" /\ pc' = "reload" /\ UNCHANGED <<ctr, parked, data, result>>
    BY <1>8, <1>9 DEF AddEtcdMember, Goto, TypeOK
  <2>2. Fresh' = Fresh
    BY <2>1 DEF Fresh
  <2>3. \A x \in Hosts \ Fresh : IsMember(x) => IsMember(x)'
    BY <2>1 DEF IsMember, MemberOn, Fresh, HostInv
  <2> QED BY <2>1, <2>2, <2>3 DEF AllInOrder
<1>10. ASSUME NEW h \in Hosts, NEW S \in SUBSET Hosts,
              RunContainer(h, EtcdConfig(h, S)), pc \in {"reload", "run"},
              UNCHANGED <<data, memb>>
       PROVE  AllInOrder'
  <2>1. /\ \A x \in Hosts : x # h => ctr'[x] = ctr[x]
        /\ ctr'[h].started /\ parked' = parked /\ UNCHANGED <<pc, result>>
    BY <1>8, <1>10, RunEffect
  <2>2. Fresh' = Fresh /\ \A x \in Hosts : IsMember(x)' <=> IsMember(x)
    BY <1>10 DEF Fresh, IsMember, MemberOn
  <2> QED BY <1>10, <2>1, <2>2 DEF AllInOrder
<1>11. CASE ReloadHost
  BY <1>10, <1>11, HeadFacts DEF ReloadHost
<1>12. CASE RunEtcdPlane
  BY <1>10, <1>12, HeadFacts DEF RunEtcdPlane, TypeOK
<1>13. CASE CheckHealth
  BY <1>1, <1>7, <1>8, <1>13 DEF CheckHealth, Goto
<1>14. CASE SaveClusterState
  <2>1. PICK e \in endpoints :
           Answers(e) /\ saved' = [saved EXCEPT ![data[e].cluster] = conf]
    BY <1>8, <1>14 DEF SaveClusterState
  <2>2. pc = "save" /\ UNCHANGED <<ctr, parked, data, memb, endpoints>> /\ pc' = "idle"
    BY <1>8, <1>14 DEF SaveClusterState
  <2> DEFINE c == data[e].cluster
  <2>3. c \in Configs /\ memb[c] # {}
    BY <2>1 DEF Answers, HostInv, IsMember, TypeOK
  <2>4. endpoints = conf /\ HostsOf(memb[c]) = conf
    BY <2>2, <2>3, SavedMembers DEF ProcInv
  <2>5. saved'[c] = conf
    BY <2>1, <2>3 DEF TypeOK
  <2>6. Fresh' = Fresh /\ \A h \in Hosts : IsMember(h)' <=> IsMember(h)
    BY <2>2 DEF Fresh, IsMember, MemberOn
  <2>7. \E d \in Configs : /\ memb'[d] # {} /\ saved'[d] = endpoints'
                           /\ HostsOf(memb[d])' = endpoints'
    BY <2>2, <2>3, <2>4, <2>5 DEF HostsOf
  <2> QED BY <1>7, <2>2, <2>6, <2>7 DEF AllInOrder
<1>15. CASE Abort
  BY <1>8, <1>15 DEF Abort
<1>16. ASSUME NEW h \in Hosts, Boot(h) PROVE AllInOrder'
  <2>1. /\ UNCHANGED <<ctr, saved, pc, todo>>
        /\ pc # "state" /\ ctr[h].started /\ Fresh' = Fresh \ {h}
        /\ \A x \in Hosts : x # h => data'[x] = data[x]
        /\ IsMember(h)'
    BY <1>16, BootChanges
  <2>2. \A c \in Configs : memb[c] # {} => memb'[c] = memb[c]
    BY <1>16, BootChanges
  <2>3. UNCHANGED <<parked, endpoints>>
    BY <1>16 DEF Boot
  <2>4. ASSUME NEW x \in Hosts \ Fresh, x # h, IsMember(x) PROVE IsMember(x)'
    <3>1. data[x] # NoData /\ memb'[data[x].cluster] = memb[data[x].cluster]
      BY <2>2, <2>4 DEF IsMember, HostInv
    <3> QED BY <2>1, <2>4, <3>1 DEF IsMember, MemberOn
  <2>5. \A x \in Hosts \ Fresh' : (pc = "delete_node" /\ x = First(todo)) \/
                                  (IsMember(x)' /\ ctr[x].started)
    BY <2>1, <2>4 DEF AllInOrder
  <2>6. pc \in {"idle", "state"} => \E c \in Configs :
           /\ memb'[c] # {} /\ saved[c] = endpoints /\ HostsOf(memb[c])' = endpoints
    <3> SUFFICES ASSUME pc \in {"idle", "state"}
                 PROVE  \E c \in Configs :
                           /\ memb'[c] # {} /\ saved[c] = endpoints
                           /\ HostsOf(memb[c])' = endpoints
      OBVIOUS
    <3>1. ctr[h] # NoContainer
      BY <2>1, NoContainerFacts
    <3>2. PICK c \in Configs : /\ memb[c] # {} /\ saved[c] = endpoints
                               /\ HostsOf(memb[c]) = endpoints
      BY <3>1 DEF AllInOrder
    <3> QED BY <2>2, <3>2 DEF HostsOf
  <2> QED BY <1>7, <2>1, <2>3, <2>5, <2>6 DEF AllInOrder
<1>17. CASE UNCHANGED vars
  BY <1>17 DEF vars, AllInOrder, Fresh, IsMember, MemberOn, HostsOf
<1> QED BY <1>2, <1>3, <1>4, <1>5, <1>6, <1>9, <1>11, <1>12, <1>13, <1>14, <1>15,
           <1>16, <1>17 DEF Next, RkeStep

\* Between two runs in which nothing failed, the API server finds an etcd that
\* answers and the state that was saved in it.
LEMMA StateShared ==
  ASSUME Right, AllInOrder, GetClusterState, ~Fault
  PROVE  Shared(cur')
<1> USE DEF Right, ViewInv
<1>1. pc = "state" /\ Settled /\ Residue = {}
  BY NothingLeft DEF GetClusterState, ProcInv
<1>2. UNCHANGED <<ctr, memb>>
  BY DEF GetClusterState, hostVars, etcdVars
<1>3. CASE /\ endpoints = {}
           /\ \A c \in Configs : memb[c] = {}
           /\ \A h \in Hosts : ctr[h] = NoContainer
  <2>1. cur' = {}
    BY <1>3 DEF GetClusterState
  <2>2. \A c \in Configs : HostsOf(memb[c]) = {}
    BY <1>3, HostsOfFacts
  <2> QED BY <1>3, <2>1, <2>2 DEF Shared
<1>4. ASSUME NEW c \in Configs, memb[c] # {}, saved[c] = endpoints,
             HostsOf(memb[c]) = endpoints
      PROVE  Shared(cur')
  <2>1. endpoints # {} /\ endpoints \subseteq Hosts
    BY <1>4, HostsOfFacts DEF TypeOK
  <2>2. \A h \in endpoints : h \notin Fresh
    <3>1. \A h \in Fresh : h \in saved[c] => CanBoot(h)
      BY <1>1, <1>4, <2>1 DEF IdleInv
    <3> QED BY <1>1, <1>4, <2>1, <3>1 DEF Settled
  <2>3. \A h \in endpoints : h \in up /\ data[h].cluster = c
    BY <1>1, <1>4, <2>1, <2>2, InOrderServes, OneMembership DEF Fresh
  <2>4. endpoints \subseteq Serving(c)
    BY <2>3 DEF Serving
  <2>5. Quorum(c)
    BY <1>4, <2>4, AllServe
  <2>6. \A h \in endpoints : Answers(h)
    BY <2>3, <2>5 DEF Answers
  <2>7. cur' = endpoints
    BY <1>4, <2>1, <2>3, <2>6 DEF GetClusterState
  <2>8. \A d \in Configs : d # c => HostsOf(memb[d]) = {}
    BY <1>4, OneMembership, HostsOfFacts
  <2>9. UNION {HostsOf(memb[d]) : d \in Configs} = endpoints
    BY <1>4, <2>8
  <2> QED BY <2>1, <2>7, <2>9 DEF Shared
<1> QED BY <1>1, <1>3, <1>4 DEF AllInOrder

\* A run in which nothing has failed removes every member that it is to remove,
\* if a configured host belongs to the cluster.
LEMMA RemovalCarriedOut ==
  ASSUME Right, NamesInv, AllInOrder, RemoveEtcdMember, ~Fault, cur \cap conf # {}
  PROVE  UNCHANGED astray
<1> USE DEF Right, ViewInv
<1> DEFINE h == First(todo)
           through == {e \in conf : Answers(e) /\ Named(e, h) # {}}
<1>1. /\ pc = "delete" /\ todo # {} /\ cur # {}
      /\ todo \subseteq cur \ conf /\ h \in todo
  BY HeadFacts DEF RemoveEtcdMember, ProcInv
<1>2. LaterRun /\ Membership = (cur \cap conf) \cup todo /\ Residue = {}
  BY <1>1, NothingLeft DEF LaterRun, Membership
<1>3. \A x \in Membership : x \in Hosts \ Fresh
  BY <1>1, <1>2 DEF MembersInv, TypeOK
<1> SUFFICES ASSUME through = {}, Settled PROVE FALSE
  BY DEF RemoveEtcdMember
<1> HIDE DEF h
<1>4. PICK e \in cur \cap conf : TRUE
  OBVIOUS
<1> DEFINE c == data[e].cluster
<1>5. c \in Configs /\ memb[c] # {} /\ e \in Membership
  BY <1>2, <1>3, <1>4 DEF HostInv, Fresh
<1>6. HostsOf(memb[c]) = Membership
  BY <1>2, <1>5 DEF MembersInv
<1>7. \A x \in Membership : x \in up /\ data[x].cluster = c
  BY <1>2, <1>3, <1>5, InOrderServes, OneMembership DEF Fresh
<1>8. Membership \subseteq Serving(c)
  BY <1>7 DEF Serving
<1>9. Quorum(c)
  BY <1>5, <1>6, <1>8, AllServe
<1>10. h \in Membership /\ h \in Hosts
  BY <1>1, <1>2, <1>3
<1>11. MemberOn(h) \in announced[c] /\ MemberOn(h) \in memb[c]
  BY <1>5, <1>8, <1>9, <1>10, ServingFacts DEF NamesInv
<1>12. MemberOn(h).host = h
  BY DEF MemberOn, Member
<1>13. MemberOn(h) \in Named(e, h)
  BY <1>11, <1>12 DEF Named
<1>14. Answers(e)
  BY <1>5, <1>7, <1>9 DEF Answers
<1>15. e \in through
  BY <1>4, <1>13, <1>14
<1> QED BY <1>15

\* As long as nothing has failed, the view of etcd was right and etcd had come
\* up when a run began, no container
\* is parked or stopped, no host has the data of a member that is gone, and
\* between two runs the endpoints, the saved state and the membership agree.
THEOREM FaultFreeHolds == Spec => [](EtcdClusterInv /\ NamesInv /\ FaultFree)
<1>1. Init => NamesInv /\ FaultFree
  <2>1. Init => AllInOrder
    BY DEF Init, AllInOrder, Fresh
  <2> QED BY <2>1, HostInit DEF FaultFree
<1>2. EtcdClusterInv /\ EtcdClusterInv' /\ NamesInv /\ FaultFree /\ [Next]_vars
      => NamesInv' /\ FaultFree'
  <2> SUFFICES ASSUME EtcdClusterInv, EtcdClusterInv', NamesInv, FaultFree,
                      [Next]_vars
               PROVE  NamesInv' /\ FaultFree'
    OBVIOUS
  <2>1. NamesInv'
    BY NamesStep DEF EtcdClusterInv
  <2>2. ASSUME ~astray', ~hasty', faults' = 0 PROVE AllInOrder'
    <3>1. ~astray /\ ~hasty /\ faults = 0 /\ ~Fault
      BY <2>2, AstrayStays, HastyStays, FaultsStay DEF EtcdClusterInv
    <3>2. Right /\ AllInOrder
      BY <3>1 DEF EtcdClusterInv, Right, FaultFree
    <3> QED BY <2>2, <3>1, <3>2, InOrderStep
  <2> QED BY <2>1, <2>2 DEF FaultFree
<1> QED BY <1>1, <1>2, EtcdClusterInvariant, PTL DEF Spec

\* Without errors and crashes every run sees etcd as it is and changes it as it
\* means to, unless no configured host is a member any more or some run began
\* before etcd had come up.
THEOREM ViewSharedHolds == Spec => ViewShared
<1>1. EtcdClusterInv /\ NamesInv /\ FaultFree /\ [Next]_vars =>
         [~astray /\ ~hasty /\ astray' /\ faults' = 0
          => cur' # {} /\ cur' \cap conf = {}]_vars
  <2> SUFFICES ASSUME EtcdClusterInv, NamesInv, FaultFree, Next, ~astray,
                      ~hasty, astray', faults' = 0
               PROVE  cur' # {} /\ cur' \cap conf = {}
    OBVIOUS
  <2>1. faults = 0 /\ ~Fault
    BY FaultsStay DEF EtcdClusterInv
  <2>2. Right /\ AllInOrder
    BY <2>1 DEF EtcdClusterInv, Right, FaultFree
  <2>3. CASE GetClusterState
    <3>1. ~Shared(cur')
      BY <2>3 DEF GetClusterState
    <3> QED BY <2>1, <2>2, <2>3, <3>1, StateShared
  <2>4. CASE RemoveEtcdMember
    <3>1. cur \cap conf = {}
      BY <2>1, <2>2, <2>4, RemovalCarriedOut
    <3>2. cur # {} /\ cur' = cur
      BY <2>2, <2>4 DEF RemoveEtcdMember, Right, ProcInv
    <3> QED BY <3>1, <3>2
  <2>5. CASE ReloadHost \/ RunEtcdPlane
    BY <2>5 DEF ReloadHost, RunEtcdPlane, RunContainer, Fail
  <2>6. CASE AddEtcdMember \/ CheckHealth \/ SaveClusterState \/ Abort
    BY <2>6 DEF AddEtcdMember, CheckHealth, SaveClusterState, Abort, Fail
  <2>7. CASE ReconcileHost \/ Deleted \/ Added \/ RunKubeAPI \/
             (\E c \in Configs : StartUp(c)) \/ (\E h \in Hosts : Boot(h))
    BY <2>7 DEF ReconcileHost, Deleted, Added, RunKubeAPI, StartUp, Boot
  <2> QED BY <2>3, <2>4, <2>5, <2>6, <2>7 DEF Next, RkeStep
<1> QED BY <1>1, FaultFreeHolds, PTL DEF Spec, ViewShared

=============================================================================
