--------------------------- MODULE NodeSyncProofs ---------------------------
(***************************************************************************)
(* Proofs about NodeSync, for any hosts, labels, configurations and number *)
(* of attempts and runs: a run that succeeds leaves the Nodes labelled and *)
(* tainted as cluster.yml says, and rke never undoes what others write.    *)
(*                                                                         *)
(* The write of a Node is safe because it is refused when the Node has     *)
(* changed since it was read: while the copy is not stale it is what the   *)
(* Node, as it is now, should become (CopyInv).  Which labels a Node may   *)
(* have follows from the states that were saved (UserInv): before its sync *)
(* those of the previous state, after it those of cluster.yml.             *)
(***************************************************************************)
EXTENDS NodeSync, SequenceTheorems, TLAPS

Taints == {EtcdTaint, ForeignTaint}
SyncPcs == {"labels_get", "labels_put", "taints_get", "taints_put"}
Results == {"none", "ok", "err", "panic"}

TypeInv ==
    /\ exists \subseteq Hosts /\ pending \subseteq Hosts /\ todo \subseteq Hosts
    /\ missed \subseteq Hosts /\ lost \subseteq Hosts
    /\ labels \in [Hosts -> SUBSET Labels]
    /\ taints \in [Hosts -> Seq(Taints)]
    /\ stale \in BOOLEAN
    /\ saved \in [Hosts -> HostConfig]
    /\ conf \in [Hosts -> HostConfig]
    /\ cur \in [Hosts -> HostConfig]
    /\ pc \in SyncPcs \cup {"idle", "delete_get"}
    /\ result \in Results
    /\ copy \in [labels : SUBSET Labels, taints : Seq(Taints)]

\* Where a run stands: the sync works on the hosts of cluster.yml, after the
\* state was saved, and a result is there only once the run is over.
StageInv ==
    /\ pc \in SyncPcs => /\ saved = conf
                         /\ host \in HostsOf(conf) \ todo
                         /\ todo \subseteq HostsOf(conf)
    /\ pc = "delete_get" => cur = saved
    /\ pc # "idle" => result = "none"

\* What doSyncLabels and doSyncTaints make of a Node.
SyncedLabels(h) == (labels[h] \ ToDelLabels(h)) \cup ToAddLabels(h)
SyncedTaints(h) ==
    DelTaints(AddTaints(taints[h], ToAddTaints(h)), ToDelTaints(h))
Panics(h) == DelPanics(AddTaints(taints[h], ToAddTaints(h)), ToDelTaints(h))

\* A copy that is not stale is what its Node should become.
CopyInv ==
    /\ (pc = "labels_put" /\ ~stale) =>
          copy.labels = SyncedLabels(host)
    /\ (pc = "taints_put" /\ ~stale) =>
          copy.taints = SyncedTaints(host) /\ ~Panics(host)

\* A Node that is not there has no labels.
AbsentInv == \A h \in Hosts \ exists : labels[h] = {}

\* The hosts of the sync whose Nodes are still to be labelled, and tainted.
Unlabelled == todo \cup (IF pc \in {"labels_get", "labels_put"} THEN {host} ELSE {})
Untainted == todo \cup {host}

\* The labels of cluster.yml that a Node has, unless they were lost track of.
UserInv ==
    /\ pc \notin SyncPcs =>
          \A h \in Hosts \ lost : labels[h] \cap UserLabels \subseteq saved[h].labels
    /\ pc \in SyncPcs =>
          \A h \in Hosts \ lost :
             labels[h] \cap UserLabels \subseteq
                (IF h \in Unlabelled THEN cur[h].labels ELSE conf[h].labels)

\* What the sync has achieved so far.
Labelled(h) == labels[h] \cap Roles = conf[h].roles /\ conf[h].labels \subseteq labels[h]
Tainted(h) == conf[h].roles = {"etcd"} => EtcdTaint \in ToSet(taints[h])

SyncedInv ==
    /\ pc \in SyncPcs =>
          /\ \A h \in HostsOf(conf) \ (Unlabelled \cup missed) : Labelled(h)
          /\ \A h \in HostsOf(conf) \ (Untainted \cup missed) : Tainted(h)
    /\ result = "ok" =>
          /\ pc = "idle" /\ saved = conf
          /\ \A h \in HostsOf(conf) \ missed : Labelled(h) /\ Tainted(h)

\* The inductive invariant.
NodeInv ==
    /\ TypeInv /\ StageInv /\ CopyInv
    /\ AbsentInv /\ UserInv /\ SyncedInv

-----------------------------------------------------------------------------
(* Lists of taints.                                                         *)

\* Adding keeps what is there and adds what is wanted.
LEMMA AddFacts ==
    ASSUME NEW list \in Seq(Taints), NEW adds \in {<<>>, <<EtcdTaint>>}
    PROVE  /\ AddTaints(list, adds) \in Seq(Taints)
           /\ ToSet(list) \subseteq ToSet(AddTaints(list, adds))
           /\ adds # <<>> => EtcdTaint \in ToSet(AddTaints(list, adds))
<1>1. CASE adds = <<>>
  BY <1>1 DEF AddTaints
<1>2. CASE adds = <<EtcdTaint>> /\ EtcdTaint \in ToSet(list)
  BY <1>2 DEF AddTaints
<1>3. CASE adds = <<EtcdTaint>> /\ EtcdTaint \notin ToSet(list)
  <2>1. AddTaints(list, adds) = Append(list, EtcdTaint)
    BY <1>3 DEF AddTaints
  <2> QED
    BY <2>1 DEF ToSet, Taints
<1> QED
  BY <1>1, <1>2, <1>3

\* Deleting at a position the list has gives a list.
LEMMA DelAtFacts ==
    ASSUME NEW list \in Seq(Taints), NEW dels, NEW i \in {1, 2}, CanDel(list, dels, i)
    PROVE  DelAt(list, dels, i) \in Seq(Taints)
<1>1. CASE dels[i] \notin ToSet(list)
  BY <1>1 DEF DelAt
<1>2. CASE dels[i] \in ToSet(list)
  <2>1. i <= Len(list) /\ DelAt(list, dels, i) = RemoveAt(list, i)
    BY <1>2 DEF CanDel, DelAt
  <2>2. SubSeq(list, 1, i - 1) \in Seq(Taints) /\ SubSeq(list, i + 1, Len(list)) \in Seq(Taints)
    BY <2>1
  <2> QED
    BY <2>1, <2>2 DEF RemoveAt
<1> QED
  BY <1>1, <1>2

LEMMA DelFacts ==
    ASSUME NEW list \in Seq(Taints), NEW dels \in Seq({EtcdTaint}),
           Len(dels) <= 2, ~DelPanics(list, dels)
    PROVE  /\ DelTaints(list, dels) \in Seq(Taints)
           /\ dels = <<>> => DelTaints(list, dels) = list
<1>0. dels = <<>> <=> Len(dels) = 0
  BY EmptySeq
<1>1. CASE dels = <<>>
  BY <1>1 DEF DelTaints
<1>2. ASSUME dels # <<>> PROVE  DelAt(list, dels, 1) \in Seq(Taints)
  <2>1. dels[1] = EtcdTaint
    BY <1>2
  <2>2. EtcdTaint \in ToSet(list) => 1 <= Len(list)
    BY DEF ToSet
  <2>3. CanDel(list, dels, 1)
    BY <2>1, <2>2 DEF CanDel
  <2> QED
    BY <2>3, DelAtFacts
<1>3. CASE Len(dels) = 1
  BY <1>0, <1>2, <1>3 DEF DelTaints
<1>4. CASE Len(dels) = 2
  <2>1. CanDel(DelAt(list, dels, 1), dels, 2) /\ dels # <<>>
    BY <1>0, <1>4 DEF DelPanics
  <2>2. DelTaints(list, dels) = DelAt(DelAt(list, dels, 1), dels, 2)
    BY <1>4, <2>1 DEF DelTaints
  <2> QED
    BY <1>2, <2>1, <2>2, DelAtFacts
<1>5. Len(dels) \in {0, 1, 2}
  <2>1. Len(dels) \in Nat
    BY LenProperties
  <2>2. \A n \in Nat : n <= 2 => n \in {0, 1, 2}
    OBVIOUS
  <2> QED
    BY <2>1, <2>2
<1> QED
  BY <1>0, <1>1, <1>3, <1>4, <1>5

\* What rke adds to and deletes from the taints of a Node.
LEMMA WantedTaints ==
    ASSUME TypeInv, NEW h \in Hosts
    PROVE  /\ ToAddTaints(h) \in {<<>>, <<EtcdTaint>>}
           /\ ToDelTaints(h) \in Seq({EtcdTaint}) /\ Len(ToDelTaints(h)) <= 2
           /\ conf[h].roles = {"etcd"} =>
                 ToAddTaints(h) = <<EtcdTaint>> /\ ToDelTaints(h) = <<>>
<1>1. ToAddTaints(h) \in {<<>>, <<EtcdTaint>>}
  BY DEF ToAddTaints
<1>2. ToDelTaints(h) \in Seq({EtcdTaint}) /\ Len(ToDelTaints(h)) <= 2
  <2> DEFINE one(role) == IF role \in RolesGained(h) /\ "etcd" \in conf[h].roles
                          THEN <<EtcdTaint>> ELSE <<>>
  <2>1. \A r \in Roles : one(r) \in Seq({EtcdTaint}) /\ Len(one(r)) <= 1
    <3>1. <<EtcdTaint>> \in Seq({EtcdTaint}) /\ Len(<<EtcdTaint>>) <= 1
      OBVIOUS
    <3>2. <<>> \in Seq({EtcdTaint}) /\ Len(<<>>) <= 1
      BY EmptySeq
    <3>3. \A r \in Roles : one(r) \in {<<EtcdTaint>>, <<>>}
      OBVIOUS
    <3> QED
      BY <3>1, <3>2, <3>3, Zenon
  <2>2. ToDelTaints(h) \in {<<>>, one("worker") \o one("controlplane")}
    BY DEF ToDelTaints
  <2>3. "worker" \in Roles /\ "controlplane" \in Roles
    BY DEF Roles
  <2> HIDE DEF one
  <2>4. CASE ToDelTaints(h) = <<>>
    BY <2>4, EmptySeq
  <2>5. CASE ToDelTaints(h) = one("worker") \o one("controlplane")
    <3>1. Len(ToDelTaints(h)) = Len(one("worker")) + Len(one("controlplane"))
      BY <2>1, <2>3, <2>5, ConcatProperties
    <3>2. ToDelTaints(h) \in Seq({EtcdTaint})
      BY <2>1, <2>3, <2>5, ConcatProperties
    <3>3. Len(one("worker")) \in Nat /\ Len(one("controlplane")) \in Nat
      BY <2>1, <2>3, LenProperties
    <3> QED
      BY <2>1, <2>3, <3>1, <3>2, <3>3
  <2> QED
    BY <2>2, <2>4, <2>5
<1>3. ASSUME conf[h].roles = {"etcd"}
      PROVE  ToAddTaints(h) = <<EtcdTaint>> /\ ToDelTaints(h) = <<>>
  <2>1. "worker" \notin RolesGained(h) /\ "controlplane" \notin RolesGained(h)
    BY <1>3 DEF RolesGained
  <2> QED
    BY <1>3, <2>1 DEF ToAddTaints, ToDelTaints
<1> QED
  BY <1>1, <1>2, <1>3

\* The taints that doSyncTaints wants a Node to have.
LEMMA NewTaints ==
    ASSUME TypeInv, NEW h \in Hosts, ~Panics(h)
    PROVE  /\ SyncedTaints(h) \in Seq(Taints)
           /\ conf[h].roles = {"etcd"} => EtcdTaint \in ToSet(SyncedTaints(h))
           /\ ToDelTaints(h) = <<>> => ToSet(taints[h]) \subseteq ToSet(SyncedTaints(h))
<1> DEFINE with == AddTaints(taints[h], ToAddTaints(h))
<1>1. taints[h] \in Seq(Taints)
  BY DEF TypeInv
<1>2. /\ with \in Seq(Taints) /\ ToSet(taints[h]) \subseteq ToSet(with)
      /\ ToAddTaints(h) # <<>> => EtcdTaint \in ToSet(with)
  BY <1>1, WantedTaints, AddFacts
<1> HIDE DEF with
<1>3. /\ SyncedTaints(h) \in Seq(Taints)
      /\ ToDelTaints(h) = <<>> => SyncedTaints(h) = with
  BY <1>2, WantedTaints, DelFacts DEF SyncedTaints, Panics, with
<1>4. conf[h].roles = {"etcd"} => ToAddTaints(h) # <<>> /\ ToDelTaints(h) = <<>>
  BY WantedTaints
<1> QED
  BY <1>2, <1>3, <1>4

-----------------------------------------------------------------------------
(* Labels.                                                                  *)

\* What doSyncLabels writes: the labels of cluster.yml, no other role, no label
\* the state tells of, and everything else as it was.
LEMMA NewLabels ==
    ASSUME TypeInv, NEW h \in Hosts
    PROVE  /\ SyncedLabels(h) \in SUBSET Labels
           /\ SyncedLabels(h) \cap Roles = conf[h].roles
           /\ conf[h].labels \subseteq SyncedLabels(h)
           /\ labels[h] \cap UserLabels \subseteq cur[h].labels =>
                 SyncedLabels(h) \cap UserLabels \subseteq conf[h].labels
           /\ labels[h] \cap {"foreign"} \subseteq SyncedLabels(h)
<1>1. /\ conf[h].roles \subseteq Roles /\ conf[h].labels \subseteq UserLabels
      /\ cur[h].roles \subseteq Roles /\ cur[h].labels \subseteq UserLabels
      /\ labels[h] \subseteq Labels
  BY DEF TypeInv, HostConfig
<1>2. UserLabels \cap Roles = {} /\ "foreign" \notin UserLabels \cup Roles
  BY NodeAssumption DEF Roles
<1>3. ToAddLabels(h) = conf[h].roles \cup conf[h].labels
  BY DEF ToAddLabels
<1>4. ToDelLabels(h) = (Roles \ conf[h].roles) \cup (cur[h].labels \ conf[h].labels)
  BY DEF ToDelLabels
<1> QED
  BY <1>1, <1>2, <1>3, <1>4 DEF Labels, SyncedLabels

-----------------------------------------------------------------------------
(* One lemma per part of the invariant, one step per action.                *)

\* The hosts with a role are hosts.
LEMMA HostsOfFacts == \A c : HostsOf(c) \subseteq Hosts
BY DEF HostsOf

\* How a run goes on after the last steps on a host, and what it forgets when
\* it ends.
LEMMA NextHostFacts ==
    ASSUME NEW left \in SUBSET Hosts, NextHost(left)
    PROVE  \/ pc' = "idle" /\ result' = "ok" /\ left = {} /\ todo' = todo
           \/ /\ pc' = "labels_get" /\ result' = result
              /\ host' \in left /\ todo' = left \ {host'}
BY DEF NextHost, End, Goto

LEMMA RetryFacts ==
    ASSUME NEW again, NEW giveUp, Retry(again, giveUp)
    PROVE  \/ pc' = "idle" /\ result' = giveUp
           \/ pc' = again /\ result' = result
BY DEF Retry, End, Goto

LEMMA LostFacts ==
    ASSUME NEW ends, LostIf(ends)
    PROVE  /\ lost \subseteq lost' /\ lost' \subseteq lost \cup HostsOf(conf)
           /\ (ends /\ saved = conf /\ cur # conf) => HostsOf(conf) \subseteq lost'
BY DEF LostIf

\* Types.
LEMMA TypeStep == TypeInv /\ StageInv /\ [Next]_vars => TypeInv'
<1> SUFFICES ASSUME TypeInv, StageInv, [Next]_vars PROVE  TypeInv'
  OBVIOUS
<1> USE DEF TypeInv
<1>1. ASSUME NEW c \in Configs, StartUp(c) PROVE  TypeInv'
  <2>1. NoCopy \in [labels : SUBSET Labels, taints : Seq(Taints)]
    BY EmptySeq DEF NoCopy
  <2>2. todo' \subseteq Hosts /\ conf' \in [Hosts -> HostConfig]
    BY <1>1, NodeAssumption DEF StartUp
  <2> QED
    BY <1>1, <2>1, <2>2 DEF StartUp, SyncPcs, Results
<1>2. CASE DeleteNode
  <2>0. PICK h \in todo :
         \/ /\ exists' = exists \ {h}
            /\ labels' = [labels EXCEPT ![h] = {}]
            /\ taints' = [taints EXCEPT ![h] = <<>>]
            /\ pending' = pending \ {h} /\ todo' = todo \ {h}
            /\ UNCHANGED <<pc, result, lost>>
         \/ /\ pc' = "idle" /\ result' = "err" /\ LostIf(TRUE)
            /\ UNCHANGED <<exists, labels, taints, pending, todo>>
         \/ /\ todo' = todo \ {h}
            /\ UNCHANGED <<exists, labels, taints, pending, pc, result, lost>>
    BY <1>2 DEF DeleteNode, End
  <2>1. UNCHANGED <<stale, saved, host, conf, cur, copy, missed>>
    BY <1>2 DEF DeleteNode
  <2>2. <<>> \in Seq(Taints)
    BY EmptySeq
  <2>3. exists' \subseteq Hosts /\ pending' \subseteq Hosts /\ todo' \subseteq Hosts
    BY <2>0
  <2>6. labels' \in [Hosts -> SUBSET Labels]
    BY <2>0
  <2>7. taints' \in [Hosts -> Seq(Taints)]
    BY <2>0, <2>2
  <2>4. lost' \subseteq Hosts
    BY <2>0, LostFacts, HostsOfFacts
  <2>5. pc' \in SyncPcs \cup {"idle", "delete_get"} /\ result' \in Results
    BY <2>0 DEF Results
  <2> QED
    BY <2>1, <2>3, <2>4, <2>5, <2>6, <2>7
<1>3. CASE SaveAndDeploy
  BY <1>3, NextHostFacts, HostsOfFacts DEF SaveAndDeploy, SyncPcs, Results
<1>4. CASE DoSyncLabelsGet
  <2>0. host \in Hosts
    BY <1>4, HostsOfFacts DEF DoSyncLabelsGet, StageInv, SyncPcs
  <2>1. SyncedLabels(host) \in SUBSET Labels /\ taints[host] \in Seq(Taints)
    BY <2>0, NewLabels
  <2>2. /\ copy' \in {copy, [labels |-> SyncedLabels(host), taints |-> taints[host]]}
        /\ pc' \in {"taints_get", "labels_put", "labels_get", "idle"}
        /\ result' \in {result, "err"} /\ missed' \in {missed, missed \cup {host}}
        /\ lost' = lost \/ LostIf(pc' = "idle")
        /\ stale' \in {stale, FALSE}
        /\ UNCHANGED <<exists, labels, taints, pending, saved, todo, host, conf, cur>>
    BY <1>4, RetryFacts DEF DoSyncLabelsGet, Read, Goto, SyncedLabels
  <2>3. copy' \in [labels : SUBSET Labels, taints : Seq(Taints)]
    BY <2>1, <2>2
  <2>4. lost' \subseteq Hosts /\ missed' \subseteq Hosts
    BY <2>0, <2>2, LostFacts, HostsOfFacts
  <2> QED
    BY <2>2, <2>3, <2>4 DEF SyncPcs, Results
<1>5. CASE DoSyncLabelsPut
  <2>1. host \in Hosts /\ copy.labels \in SUBSET Labels
    BY <1>5, HostsOfFacts DEF DoSyncLabelsPut, StageInv, SyncPcs
  <2>2. /\ labels' \in {labels, [labels EXCEPT ![host] = copy.labels]}
        /\ pc' \in {"taints_get", "labels_get", "idle"}
        /\ result' \in {result, "err"}
        /\ lost' = lost \/ LostIf(pc' = "idle")
        /\ UNCHANGED <<exists, taints, stale, pending, saved, todo, host, conf,
                       cur, copy, missed>>
    BY <1>5, RetryFacts DEF DoSyncLabelsPut, Goto
  <2> QED
    BY <2>1, <2>2, LostFacts, HostsOfFacts DEF SyncPcs, Results
<1>6. CASE DoSyncTaintsGet
  <2>1. host \in Hosts /\ labels[host] \in SUBSET Labels
    BY <1>6, HostsOfFacts DEF DoSyncTaintsGet, StageInv, SyncPcs
  <2>2. ~Panics(host) => SyncedTaints(host) \in Seq(Taints)
    BY <2>1, NewTaints
  <2>3. /\ \/ copy' = copy
           \/ /\ ~Panics(host)
              /\ copy' = [labels |-> labels[host], taints |-> SyncedTaints(host)]
        /\ \/ NextHost(todo)
           \/ /\ pc' \in {"taints_put", "taints_get", "idle"} /\ todo' = todo
              /\ result' \in {result, "panic"}
        /\ missed' \in {missed, missed \cup {host}}
        /\ lost' = lost \/ LostIf(TRUE) \/ LostIf(pc' = "idle")
        /\ stale' \in {stale, FALSE}
        /\ UNCHANGED <<exists, labels, taints, pending, saved, conf, cur>>
    BY <1>6, RetryFacts DEF DoSyncTaintsGet, Read, Goto, End, Panics,
       SyncedTaints
  <2>4. copy' \in [labels : SUBSET Labels, taints : Seq(Taints)]
    BY <2>1, <2>2, <2>3
  <2>5. todo' \subseteq Hosts /\ pc' \in SyncPcs \cup {"idle"} /\ result' \in Results
    BY <2>3, NextHostFacts DEF SyncPcs, Results
  <2> QED
    BY <2>1, <2>3, <2>4, <2>5, LostFacts, HostsOfFacts
<1>7. CASE DoSyncTaintsPut
  <2>1. host \in Hosts /\ copy.taints \in Seq(Taints)
    BY <1>7, HostsOfFacts DEF DoSyncTaintsPut, StageInv, SyncPcs
  <2>2. /\ taints' \in {taints, [taints EXCEPT ![host] = copy.taints]}
        /\ \/ NextHost(todo)
           \/ /\ pc' \in {"taints_get", "idle"} /\ todo' = todo
              /\ result' \in {result, "panic"}
        /\ lost' = lost \/ LostIf(pc' = "idle")
        /\ UNCHANGED <<exists, labels, stale, pending, saved, conf, cur, copy, missed>>
    BY <1>7, RetryFacts DEF DoSyncTaintsPut
  <2>3. todo' \subseteq Hosts /\ pc' \in SyncPcs \cup {"idle"} /\ result' \in Results
    BY <2>2, NextHostFacts DEF SyncPcs, Results
  <2> QED
    BY <2>1, <2>2, <2>3, LostFacts, HostsOfFacts
<1>8. CASE Abort
  BY <1>8, LostFacts, HostsOfFacts DEF Abort, End, nodeVars, Results
<1>9. ASSUME NEW h \in Hosts, KubeletRegisters(h) PROVE  TypeInv'
  BY <1>9 DEF KubeletRegisters
<1>10. ASSUME NEW h \in Hosts, Heartbeat(h) PROVE  TypeInv'
  BY <1>10 DEF Heartbeat, Touched
<1>11. ASSUME NEW h \in Hosts, ForeignWrite(h) PROVE  TypeInv'
  <2>1. <<ForeignTaint>> \o taints[h] \in Seq(Taints)
    BY ConcatProperties DEF Taints
  <2>2. /\ labels' \in {labels, [labels EXCEPT ![h] = labels[h] \cup {"foreign"}]}
        /\ taints' \in {taints, [taints EXCEPT ![h] = <<ForeignTaint>> \o taints[h]]}
    BY <1>11 DEF ForeignWrite
  <2>3. labels' \in [Hosts -> SUBSET Labels]
    BY <2>2 DEF Labels
  <2>4. taints' \in [Hosts -> Seq(Taints)]
    BY <2>1, <2>2
  <2> QED
    BY <1>11, <2>3, <2>4 DEF ForeignWrite, Touched
<1>12. CASE UNCHANGED vars
  BY <1>12 DEF vars, nodeVars
<1> QED
  BY <1>1, <1>2, <1>3, <1>4, <1>5, <1>6, <1>7, <1>8, <1>9, <1>10, <1>11, <1>12
     DEF Next, RkeStep

-----------------------------------------------------------------------------
(* What the steps of a run do, disjunct by disjunct.                        *)

\* The run is over with an error, and may leave labels behind.
Ended(how) == pc' = "idle" /\ result' = how /\ LostIf(TRUE)

\* An attempt failed.
Retried(again, how) ==
    \/ pc' = again /\ UNCHANGED <<result, lost>>
    \/ Ended(how)

LEMMA RetriedFacts ==
    ASSUME NEW again, again # "idle", NEW how, Retry(again, how), LostIf(pc' = "idle")
    PROVE  Retried(again, how)
BY DEF Retry, LostIf, End, Goto, Retried, Ended

LEMMA LabelsGetEffect ==
    ASSUME DoSyncLabelsGet
    PROVE  /\ pc = "labels_get"
           /\ UNCHANGED <<exists, labels, taints, saved, todo, host, conf, cur>>
           /\ \/ /\ host \notin exists /\ missed' = missed \cup {host}
                 /\ pc' = "taints_get"
                 /\ UNCHANGED <<copy, stale, lost, result>>
              \/ /\ copy'.labels = SyncedLabels(host) /\ stale' = FALSE
                 /\ \/ pc' = "taints_get" /\ labels[host] = SyncedLabels(host)
                    \/ pc' = "labels_put"
                 /\ UNCHANGED <<missed, lost, result>>
              \/ Retried("labels_get", "err") /\ UNCHANGED <<copy, stale, missed>>
<1>1. ASSUME Retry("labels_get", "err"), LostIf(pc' = "idle")
      PROVE  Retried("labels_get", "err")
  BY <1>1, RetriedFacts
<1> QED
  BY <1>1 DEF DoSyncLabelsGet, Read, Goto, SyncedLabels

LEMMA LabelsPutEffect ==
    ASSUME DoSyncLabelsPut
    PROVE  /\ pc = "labels_put"
           /\ UNCHANGED <<exists, taints, stale, saved, todo, host, conf, cur, copy,
                          missed>>
           /\ \/ /\ ~stale /\ host \in exists
                 /\ labels' = [labels EXCEPT ![host] = copy.labels]
                 /\ pc' = "taints_get"
                 /\ UNCHANGED <<lost, result>>
              \/ Retried("labels_get", "err") /\ UNCHANGED labels
<1>1. ASSUME Retry("labels_get", "err"), LostIf(pc' = "idle")
      PROVE  Retried("labels_get", "err")
  BY <1>1, RetriedFacts
<1> QED
  BY <1>1 DEF DoSyncLabelsPut, Goto

LEMMA TaintsGetEffect ==
    ASSUME DoSyncTaintsGet
    PROVE  /\ pc = "taints_get"
           /\ UNCHANGED <<exists, labels, taints, saved, conf, cur>>
           /\ \/ /\ missed' = missed \cup {host} /\ NextHost(todo)
                 /\ UNCHANGED <<copy, stale, lost>>
              \/ /\ ~Panics(host) /\ copy'.taints = SyncedTaints(host) /\ stale' = FALSE
                 /\ pc' = "taints_put"
                 /\ UNCHANGED <<missed, lost, result, todo, host>>
              \/ /\ Ended("panic") \/ Retried("taints_get", "panic")
                 /\ UNCHANGED <<copy, stale, missed, todo, host>>
<1>1. ASSUME Retry("taints_get", "panic"), LostIf(pc' = "idle")
      PROVE  Retried("taints_get", "panic")
  BY <1>1, RetriedFacts
<1>2. /\ pc = "taints_get"
      /\ UNCHANGED <<exists, labels, taints, saved, conf, cur>>
  BY DEF DoSyncTaintsGet
<1>3. \/ /\ missed' = missed \cup {host} /\ NextHost(todo)
         /\ UNCHANGED <<copy, stale, lost>>
      \/ /\ ~Panics(host) /\ Read(host, labels[host], SyncedTaints(host))
         /\ Goto("taints_put")
         /\ UNCHANGED <<missed, lost, todo, host>>
      \/ /\ End("panic") /\ LostIf(TRUE)
         /\ UNCHANGED <<copy, stale, missed, todo, host>>
      \/ /\ Retry("taints_get", "panic") /\ LostIf(pc' = "idle")
         /\ UNCHANGED <<copy, stale, missed, todo, host>>
  BY DEF DoSyncTaintsGet, SyncedTaints, Panics
<1>4. ASSUME Read(host, labels[host], SyncedTaints(host))
      PROVE  copy'.taints = SyncedTaints(host) /\ stale' = FALSE
  BY <1>4 DEF Read
<1>5. End("panic") /\ LostIf(TRUE) => Ended("panic")
  BY DEF End, Ended
<1>6. Goto("taints_put") => pc' = "taints_put" /\ result' = result
  BY DEF Goto
<1> QED
  BY <1>1, <1>2, <1>3, <1>4, <1>5, <1>6

LEMMA TaintsPutEffect ==
    ASSUME DoSyncTaintsPut
    PROVE  /\ pc = "taints_put"
           /\ UNCHANGED <<exists, labels, stale, saved, conf, cur, copy, missed>>
           /\ \/ /\ ~stale /\ host \in exists
                 /\ taints' = [taints EXCEPT ![host] = copy.taints]
                 /\ NextHost(todo)
                 /\ UNCHANGED lost
              \/ Retried("taints_get", "panic") /\ UNCHANGED <<taints, todo, host>>
<1>1. ASSUME Retry("taints_get", "panic"), LostIf(pc' = "idle")
      PROVE  Retried("taints_get", "panic")
  BY <1>1, RetriedFacts
<1> QED
  BY <1>1 DEF DoSyncTaintsPut

\* Another writer adds to a Node, and rke's labels and taints stay.
LEMMA ForeignWriteFacts ==
    ASSUME TypeInv, NEW h \in Hosts, ForeignWrite(h)
    PROVE  \A k \in Hosts : /\ labels'[k] \cap Roles = labels[k] \cap Roles
                            /\ labels[k] \subseteq labels'[k]
                            /\ ToSet(taints[k]) \subseteq ToSet(taints'[k])
<1>1. \A k \in Hosts : /\ labels'[k] \cap Roles = labels[k] \cap Roles
                       /\ labels[k] \subseteq labels'[k]
  BY DEF ForeignWrite, TypeInv, Roles
<1>2. ToSet(taints[h]) \subseteq ToSet(<<ForeignTaint>> \o taints[h])
  <2>1. /\ taints[h] \in Seq(Taints) /\ <<ForeignTaint>> \in Seq(Taints)
        /\ Len(<<ForeignTaint>>) = 1
    BY DEF TypeInv, Taints
  <2>2. /\ DOMAIN taints[h] = 1 .. Len(taints[h]) /\ Len(taints[h]) \in Nat
        /\ DOMAIN (<<ForeignTaint>> \o taints[h]) = 1 .. 1 + Len(taints[h])
        /\ \A i \in 1 .. Len(taints[h]) :
              (<<ForeignTaint>> \o taints[h])[i + 1] = taints[h][i]
    BY <2>1, ConcatProperties, LenProperties
  <2>3. ASSUME NEW i \in 1 .. Len(taints[h])
        PROVE  i + 1 \in 1 .. 1 + Len(taints[h])
    BY <2>2
  <2>4. ASSUME NEW i \in 1 .. Len(taints[h])
        PROVE  taints[h][i] \in ToSet(<<ForeignTaint>> \o taints[h])
    BY <2>2, <2>3 DEF ToSet
  <2> QED
    BY <2>2, <2>4 DEF ToSet
<1>3. \A k \in Hosts : ToSet(taints[k]) \subseteq ToSet(taints'[k])
  BY <1>2 DEF ForeignWrite, TypeInv
<1> QED
  BY <1>1, <1>3

LEMMA DeleteEffect ==
    ASSUME DeleteNode
    PROVE  /\ pc = "delete_get"
           /\ UNCHANGED <<stale, saved, host, conf, cur, copy, missed>>
           /\ \/ \E h \in todo :
                    /\ exists' = exists \ {h}
                    /\ labels' = [labels EXCEPT ![h] = {}]
                    /\ UNCHANGED <<pc, result, lost>>
              \/ Ended("err") /\ UNCHANGED <<exists, labels, taints, todo>>
              \/ UNCHANGED <<exists, labels, taints, pc, result, lost>>
BY DEF DeleteNode, End, Ended

\* The stages of a run.
LEMMA StageStep == TypeInv /\ StageInv /\ [Next]_vars => StageInv'
<1> SUFFICES ASSUME TypeInv, StageInv, [Next]_vars PROVE  StageInv'
  OBVIOUS
<1>1. ASSUME NEW c \in Configs, StartUp(c) PROVE  StageInv'
  BY <1>1 DEF StartUp, StageInv, SyncPcs
<1>2. CASE DeleteNode
  BY <1>2, DeleteEffect DEF DeleteNode, StageInv, SyncPcs, Ended
<1>3. CASE SaveAndDeploy
  BY <1>3, NextHostFacts, HostsOfFacts DEF SaveAndDeploy, StageInv, SyncPcs
<1>4. CASE DoSyncLabelsGet
  BY <1>4, LabelsGetEffect DEF DoSyncLabelsGet, StageInv, SyncPcs, Retried,
     Ended
<1>5. CASE DoSyncLabelsPut
  BY <1>5, LabelsPutEffect DEF DoSyncLabelsPut, StageInv, SyncPcs, Retried,
     Ended
<1>6. CASE DoSyncTaintsGet
  <2>1. /\ pc \in SyncPcs /\ UNCHANGED <<saved, conf>> /\ todo \in SUBSET Hosts
        /\ \/ NextHost(todo)
           \/ /\ pc' = "idle" \/ (pc' \in SyncPcs /\ result' = result)
              /\ UNCHANGED <<todo, host>>
    BY <1>6, TaintsGetEffect DEF SyncPcs, Retried, Ended, TypeInv
  <2>2. CASE NextHost(todo)
    BY <2>1, <2>2, NextHostFacts DEF StageInv, SyncPcs
  <2>3. CASE ~NextHost(todo)
    BY <2>1, <2>3 DEF StageInv, SyncPcs
  <2> QED
    BY <2>2, <2>3
<1>7. CASE DoSyncTaintsPut
  <2>1. /\ pc \in SyncPcs /\ UNCHANGED <<saved, conf>> /\ todo \in SUBSET Hosts
        /\ \/ NextHost(todo)
           \/ /\ pc' = "idle" \/ (pc' \in SyncPcs /\ result' = result)
              /\ UNCHANGED <<todo, host>>
    BY <1>7, TaintsPutEffect DEF SyncPcs, Retried, Ended, TypeInv
  <2>2. CASE NextHost(todo)
    BY <2>1, <2>2, NextHostFacts DEF StageInv, SyncPcs
  <2>3. CASE ~NextHost(todo)
    BY <2>1, <2>3 DEF StageInv, SyncPcs
  <2> QED
    BY <2>2, <2>3
<1>8. CASE Abort
  BY <1>8 DEF Abort, StageInv, SyncPcs, End
<1>9. ASSUME NEW h \in Hosts, KubeletRegisters(h) PROVE  StageInv'
  BY <1>9 DEF KubeletRegisters, StageInv
<1>10. ASSUME NEW h \in Hosts, Heartbeat(h) PROVE  StageInv'
  BY <1>10 DEF Heartbeat, StageInv
<1>11. ASSUME NEW h \in Hosts, ForeignWrite(h) PROVE  StageInv'
  BY <1>11 DEF ForeignWrite, StageInv
<1>12. CASE UNCHANGED vars
  BY <1>12 DEF vars, nodeVars, StageInv
<1> QED
  BY <1>1, <1>2, <1>3, <1>4, <1>5, <1>6, <1>7, <1>8, <1>9, <1>10, <1>11, <1>12
     DEF Next, RkeStep

\* A copy that is not stale stays what its Node should become.
LEMMA CopyStep == TypeInv /\ StageInv /\ CopyInv /\ [Next]_vars => CopyInv'
<1> SUFFICES ASSUME TypeInv, StageInv, CopyInv, [Next]_vars PROVE  CopyInv'
  OBVIOUS
<1>1. ASSUME NEW c \in Configs, StartUp(c) PROVE  CopyInv'
  BY <1>1 DEF StartUp, CopyInv
<1>2. CASE DeleteNode
  BY <1>2, DeleteEffect DEF DeleteNode, CopyInv, Ended
<1>3. CASE SaveAndDeploy
  BY <1>3, NextHostFacts, HostsOfFacts DEF SaveAndDeploy, CopyInv
<1>4. CASE DoSyncLabelsGet
  BY <1>4, LabelsGetEffect DEF DoSyncLabelsGet, CopyInv, SyncedLabels,
     ToDelLabels, ToAddLabels, Retried, Ended
<1>5. CASE DoSyncLabelsPut
  BY <1>5, LabelsPutEffect DEF DoSyncLabelsPut, CopyInv, Retried, Ended
<1>6. CASE DoSyncTaintsGet
  BY <1>6, TaintsGetEffect, NextHostFacts DEF DoSyncTaintsGet, CopyInv,
     SyncedTaints, Panics, ToAddTaints, ToDelTaints, RolesGained, Retried,
     Ended, TypeInv
<1>7. CASE DoSyncTaintsPut
  BY <1>7, TaintsPutEffect, NextHostFacts DEF DoSyncTaintsPut, CopyInv,
     Retried, Ended, TypeInv
<1>8. CASE Abort
  BY <1>8 DEF Abort, CopyInv, End
<1>9. ASSUME NEW h \in Hosts, KubeletRegisters(h) PROVE  CopyInv'
  BY <1>9 DEF KubeletRegisters, CopyInv, SyncedLabels, ToDelLabels,
     ToAddLabels, SyncedTaints, Panics, ToAddTaints, ToDelTaints, RolesGained
<1>10. ASSUME NEW h \in Hosts, Heartbeat(h) PROVE  CopyInv'
  BY <1>10 DEF Heartbeat, CopyInv, Touched, SyncedLabels, ToDelLabels,
     ToAddLabels, SyncedTaints, Panics, ToAddTaints, ToDelTaints, RolesGained
<1>11. ASSUME NEW h \in Hosts, ForeignWrite(h) PROVE  CopyInv'
  <2>1. CASE h = host
    BY <1>11, <2>1 DEF ForeignWrite, Touched, CopyInv
  <2>2. CASE h # host
    <3>1. pc \in SyncPcs => host \in Hosts
      BY HostsOfFacts DEF StageInv
    <3>2. /\ pc \in SyncPcs => labels'[host] = labels[host] /\ taints'[host] = taints[host]
          /\ stale' = stale /\ UNCHANGED <<pc, copy, conf, cur, host>>
      BY <1>11, <2>2, <3>1 DEF ForeignWrite, Touched, TypeInv
    <3> QED
      BY <3>2 DEF CopyInv, SyncPcs, SyncedLabels, ToDelLabels, ToAddLabels,
         SyncedTaints, Panics, ToAddTaints, ToDelTaints, RolesGained
  <2> QED
    BY <2>1, <2>2
<1>12. CASE UNCHANGED vars
  BY <1>12 DEF vars, nodeVars, CopyInv, SyncedLabels, ToDelLabels,
     ToAddLabels, SyncedTaints, Panics, ToAddTaints, ToDelTaints, RolesGained
<1> QED
  BY <1>1, <1>2, <1>3, <1>4, <1>5, <1>6, <1>7, <1>8, <1>9, <1>10, <1>11, <1>12
     DEF Next, RkeStep

\* Only Nodes that are there get labels.
LEMMA AbsentStep == TypeInv /\ AbsentInv /\ [Next]_vars => AbsentInv'
<1> SUFFICES ASSUME TypeInv, AbsentInv, [Next]_vars PROVE  AbsentInv'
  OBVIOUS
<1>1. ASSUME NEW c \in Configs, StartUp(c) PROVE  AbsentInv'
  BY <1>1 DEF StartUp, AbsentInv, nodeVars
<1>2. CASE DeleteNode
  BY <1>2, DeleteEffect DEF DeleteNode, AbsentInv, TypeInv
<1>3. CASE SaveAndDeploy
  BY <1>3 DEF SaveAndDeploy, AbsentInv
<1>4. CASE DoSyncLabelsGet
  BY <1>4 DEF DoSyncLabelsGet, AbsentInv
<1>5. CASE DoSyncLabelsPut
  BY <1>5, LabelsPutEffect DEF DoSyncLabelsPut, AbsentInv, TypeInv
<1>6. CASE DoSyncTaintsGet
  BY <1>6 DEF DoSyncTaintsGet, AbsentInv
<1>7. CASE DoSyncTaintsPut
  BY <1>7 DEF DoSyncTaintsPut, AbsentInv
<1>8. CASE Abort
  BY <1>8 DEF Abort, AbsentInv, nodeVars
<1>9. ASSUME NEW h \in Hosts, KubeletRegisters(h) PROVE  AbsentInv'
  BY <1>9 DEF KubeletRegisters, AbsentInv
<1>10. ASSUME NEW h \in Hosts, Heartbeat(h) PROVE  AbsentInv'
  BY <1>10 DEF Heartbeat, AbsentInv
<1>11. ASSUME NEW h \in Hosts, ForeignWrite(h) PROVE  AbsentInv'
  BY <1>11 DEF ForeignWrite, AbsentInv, TypeInv
<1>12. CASE UNCHANGED vars
  BY <1>12 DEF vars, nodeVars, AbsentInv
<1> QED
  BY <1>1, <1>2, <1>3, <1>4, <1>5, <1>6, <1>7, <1>8, <1>9, <1>10, <1>11, <1>12
     DEF Next, RkeStep

\* When a run ends early, what UserInv says of the hosts it had not labelled is
\* no longer about the saved state: those are the ones that LostIf gives up.
LEMMA EndedUser ==
    ASSUME TypeInv, StageInv, UserInv, pc # "idle", NEW how, Ended(how),
           UNCHANGED <<labels, saved>>
    PROVE  UserInv'
<1>1. pc' = "idle" /\ lost \subseteq lost'
      /\ ((saved = conf /\ cur # conf) => HostsOf(conf) \subseteq lost')
  BY LostFacts DEF Ended
<1> SUFFICES ASSUME NEW h \in Hosts \ lost'
             PROVE  labels[h] \cap UserLabels \subseteq saved[h].labels
  BY <1>1 DEF UserInv, SyncPcs
<1>2. CASE pc \notin SyncPcs
  BY <1>1, <1>2 DEF UserInv
<1>3. CASE pc \in SyncPcs /\ cur = conf
  BY <1>1, <1>3 DEF UserInv, StageInv
<1>4. CASE pc \in SyncPcs /\ cur # conf
  <2>1. h \notin HostsOf(conf) /\ saved = conf
    BY <1>1, <1>4 DEF StageInv
  <2>2. h \notin Unlabelled
    BY <1>4, <2>1 DEF StageInv, Unlabelled
  <2> QED
    BY <1>1, <1>4, <2>1, <2>2 DEF UserInv
<1> QED
  BY <1>2, <1>3, <1>4

LEMMA RetriedUser ==
    ASSUME TypeInv, StageInv, UserInv, NEW again \in {"labels_get", "taints_get"}, NEW how,
           pc \in (IF again = "labels_get" THEN {"labels_get", "labels_put"}
                   ELSE {"taints_get", "taints_put"}),
           Retried(again, how), UNCHANGED <<labels, saved, todo, host, conf, cur>>
    PROVE  UserInv'
<1>1. pc \in SyncPcs /\ pc # "idle"
  BY DEF SyncPcs
<1>2. CASE Ended(how)
  BY <1>1, <1>2, EndedUser
<1>3. CASE pc' = again /\ UNCHANGED <<result, lost>>
  BY <1>1, <1>3 DEF UserInv, Unlabelled, SyncPcs
<1> QED
  BY <1>2, <1>3 DEF Retried

LEMMA NextHostUser ==
    ASSUME TypeInv, StageInv, UserInv, pc \in {"taints_get", "taints_put"},
           NextHost(todo), UNCHANGED <<labels, saved, conf, cur, lost>>
    PROVE  UserInv'
<1>1. pc \in SyncPcs /\ Unlabelled = todo /\ saved = conf /\ todo \in SUBSET Hosts
  BY DEF SyncPcs, Unlabelled, StageInv, TypeInv
<1>2. CASE pc' = "idle" /\ todo = {}
  BY <1>1, <1>2 DEF UserInv, SyncPcs
<1>3. CASE pc' = "labels_get" /\ host' \in todo /\ todo' = todo \ {host'}
  <2>1. Unlabelled' = Unlabelled /\ pc' \in SyncPcs
    BY <1>1, <1>3 DEF Unlabelled, SyncPcs
  <2> QED
    BY <1>1, <2>1 DEF UserInv
<1> QED
  BY <1>1, <1>2, <1>3, NextHostFacts

\* Labels of cluster.yml come and go as the states say.
LEMMA UserStep ==
    TypeInv /\ StageInv /\ CopyInv /\ AbsentInv /\ UserInv /\ [Next]_vars
        => UserInv'
<1> SUFFICES ASSUME TypeInv, StageInv, CopyInv, AbsentInv, UserInv, [Next]_vars
             PROVE  UserInv'
  OBVIOUS
<1>1. ASSUME NEW c \in Configs, StartUp(c) PROVE  UserInv'
  BY <1>1 DEF StartUp, UserInv, SyncPcs
<1>2. CASE DeleteNode
  <2>1. pc \notin SyncPcs /\ pc # "idle" /\ UNCHANGED saved
    BY <1>2, DeleteEffect DEF SyncPcs
  <2>2. CASE Ended("err") /\ UNCHANGED labels
    BY <2>1, <2>2, EndedUser
  <2>3. CASE /\ UNCHANGED <<pc, lost>>
             /\ \A h \in Hosts : labels'[h] \subseteq labels[h]
    BY <2>1, <2>3 DEF UserInv
  <2>4. \A h \in todo : labels' = [labels EXCEPT ![h] = {}] =>
           \A k \in Hosts : labels'[k] \subseteq labels[k]
    BY DEF TypeInv
  <2> QED
    BY <1>2, <2>2, <2>3, <2>4, DeleteEffect
<1>3. CASE SaveAndDeploy
  <2>1. /\ cur = saved /\ saved' = conf /\ lost' = lost \cup (exists \ HostsOf(conf))
        /\ UNCHANGED <<labels, conf, cur>> /\ NextHost(HostsOf(conf)) /\ todo = {}
        /\ pc \notin SyncPcs
    BY <1>3 DEF SaveAndDeploy, StageInv, SyncPcs
  <2>2. ASSUME NEW h \in Hosts \ lost', h \notin HostsOf(conf) PROVE  labels[h] = {}
    BY <2>1, <2>2 DEF AbsentInv
  <2>3. ASSUME NEW h \in Hosts \ lost' PROVE  labels[h] \cap UserLabels \subseteq cur[h].labels
    BY <2>1, <2>3 DEF UserInv
  <2>4. \/ pc' = "idle" /\ HostsOf(conf) = {}
        \/ pc' = "labels_get" /\ Unlabelled' = HostsOf(conf)
    BY <2>1, NextHostFacts, HostsOfFacts DEF Unlabelled
  <2> QED
    BY <2>1, <2>2, <2>3, <2>4 DEF UserInv, SyncPcs
<1>4. CASE DoSyncLabelsGet
  <2>1. /\ pc = "labels_get" /\ pc \in SyncPcs /\ host \in Hosts
        /\ Unlabelled = todo \cup {host}
        /\ UNCHANGED <<labels, saved, todo, host, conf, cur>>
    BY <1>4, LabelsGetEffect, HostsOfFacts DEF StageInv, SyncPcs, Unlabelled
  <2>2. CASE Retried("labels_get", "err")
    BY <2>1, <2>2, RetriedUser
  <2>3. CASE pc' = "labels_put" /\ UNCHANGED lost
    BY <2>1, <2>3 DEF UserInv, Unlabelled, SyncPcs
  <2>4. CASE /\ pc' = "taints_get" /\ UNCHANGED lost
             /\ host \notin exists \/ labels[host] = SyncedLabels(host)
    <3>1. host \notin lost => labels[host] \cap UserLabels \subseteq conf[host].labels
      BY <2>1, <2>4, NewLabels DEF UserInv, AbsentInv
    <3>2. Unlabelled' = todo /\ pc' \in SyncPcs
      BY <2>1, <2>4 DEF Unlabelled, SyncPcs
    <3> QED
      BY <2>1, <2>4, <3>1, <3>2 DEF UserInv
  <2> QED
    BY <1>4, <2>2, <2>3, <2>4, LabelsGetEffect
<1>5. CASE DoSyncLabelsPut
  <2>1. /\ pc = "labels_put" /\ pc \in SyncPcs /\ host \in Hosts
        /\ Unlabelled = todo \cup {host}
        /\ UNCHANGED <<saved, todo, host, conf, cur>>
    BY <1>5, LabelsPutEffect, HostsOfFacts DEF StageInv, SyncPcs, Unlabelled
  <2>2. CASE Retried("labels_get", "err") /\ UNCHANGED labels
    BY <2>1, <2>2, RetriedUser
  <2>3. CASE /\ ~stale /\ labels' = [labels EXCEPT ![host] = copy.labels]
             /\ pc' = "taints_get" /\ UNCHANGED lost
    <3>1. labels'[host] = SyncedLabels(host)
      BY <2>1, <2>3 DEF CopyInv, TypeInv
    <3>2. \A k \in Hosts \ {host} : labels'[k] = labels[k]
      BY <2>1, <2>3 DEF TypeInv
    <3>3. host \notin lost => labels'[host] \cap UserLabels \subseteq conf[host].labels
      BY <2>1, <3>1, NewLabels DEF UserInv
    <3>4. Unlabelled' = todo /\ pc' \in SyncPcs
      BY <2>1, <2>3 DEF Unlabelled, SyncPcs
    <3>5. ASSUME NEW k \in Hosts \ lost
          PROVE  labels'[k] \cap UserLabels \subseteq
                    (IF k \in todo THEN cur[k].labels ELSE conf[k].labels)
      <4>1. CASE k = host
        BY <2>1, <3>3, <4>1 DEF StageInv
      <4>2. CASE k # host
        BY <2>1, <3>2, <4>2 DEF UserInv
      <4> QED
        BY <4>1, <4>2
    <3> QED
      BY <2>1, <2>3, <3>4, <3>5 DEF UserInv
  <2> QED
    BY <1>5, <2>2, <2>3, LabelsPutEffect
<1>6. CASE DoSyncTaintsGet
  <2>1. pc = "taints_get" /\ UNCHANGED <<labels, saved, conf, cur>>
    BY <1>6, TaintsGetEffect
  <2>2. CASE NextHost(todo) /\ UNCHANGED lost
    BY <2>1, <2>2, NextHostUser
  <2>3. CASE pc' = "taints_put" /\ UNCHANGED <<lost, todo, host>>
    BY <2>1, <2>3 DEF UserInv, Unlabelled, SyncPcs
  <2>4. CASE Ended("panic")
    BY <2>1, <2>4, EndedUser
  <2>5. CASE Retried("taints_get", "panic") /\ UNCHANGED <<todo, host>>
    BY <2>1, <2>5, RetriedUser
  <2> QED
    BY <1>6, <2>2, <2>3, <2>4, <2>5, TaintsGetEffect
<1>7. CASE DoSyncTaintsPut
  <2>1. pc = "taints_put" /\ UNCHANGED <<labels, saved, conf, cur>>
    BY <1>7, TaintsPutEffect
  <2>2. CASE NextHost(todo) /\ UNCHANGED lost
    BY <2>1, <2>2, NextHostUser
  <2>3. CASE Retried("taints_get", "panic") /\ UNCHANGED <<todo, host>>
    BY <2>1, <2>3, RetriedUser
  <2> QED
    BY <1>7, <2>2, <2>3, TaintsPutEffect
<1>8. CASE Abort
  <2>1. pc # "idle" /\ Ended("err") /\ UNCHANGED <<labels, saved>>
    BY <1>8 DEF Abort, End, Ended, nodeVars
  <2> QED
    BY <2>1, EndedUser
<1>9. ASSUME NEW h \in Hosts, KubeletRegisters(h) PROVE  UserInv'
  BY <1>9 DEF KubeletRegisters, UserInv, Unlabelled
<1>10. ASSUME NEW h \in Hosts, Heartbeat(h) PROVE  UserInv'
  BY <1>10 DEF Heartbeat, UserInv, Unlabelled
<1>11. ASSUME NEW h \in Hosts, ForeignWrite(h) PROVE  UserInv'
  <2>1. \A k \in Hosts : labels'[k] \cap UserLabels = labels[k] \cap UserLabels
    BY <1>11, NodeAssumption DEF ForeignWrite, TypeInv
  <2> QED
    BY <1>11, <2>1 DEF ForeignWrite, UserInv, Unlabelled
<1>12. CASE UNCHANGED vars
  BY <1>12 DEF vars, nodeVars, UserInv, Unlabelled
<1> QED
  BY <1>1, <1>2, <1>3, <1>4, <1>5, <1>6, <1>7, <1>8, <1>9, <1>10, <1>11, <1>12
     DEF Next, RkeStep

\* The sync of a host is over and the next one begins, or the run has succeeded.
LEMMA NextHostSynced ==
    ASSUME TypeInv, StageInv, SyncedInv, pc \in {"taints_get", "taints_put"},
           NextHost(todo), UNCHANGED <<labels, saved, conf>>,
           missed \subseteq missed',
           \A h \in Hosts \ {host} : taints'[h] = taints[h],
           \/ host \in missed'
           \/ conf[host].roles = {"etcd"} => EtcdTaint \in ToSet(taints'[host])
    PROVE  SyncedInv'
<1>1. /\ pc \in SyncPcs /\ Unlabelled = todo /\ Untainted = todo \cup {host}
      /\ saved = conf /\ todo \in SUBSET Hosts /\ result = "none"
  BY DEF SyncPcs, Unlabelled, Untainted, StageInv, TypeInv
<1>2. \A h \in HostsOf(conf) \ (todo \cup missed') : Labelled(h)' /\ Tainted(h)'
  <2> SUFFICES ASSUME NEW h \in HostsOf(conf) \ (todo \cup missed')
               PROVE  Labelled(h)' /\ Tainted(h)'
    OBVIOUS
  <2>1. Labelled(h)'
    BY <1>1 DEF SyncedInv, Labelled
  <2>2. ASSUME h = host PROVE  Tainted(h)'
    BY <2>2 DEF Tainted
  <2>3. ASSUME h # host PROVE  Tainted(h)'
    BY <1>1, <2>3, HostsOfFacts DEF SyncedInv, Tainted
  <2> QED
    BY <2>1, <2>2, <2>3
<1>3. CASE pc' = "idle" /\ todo = {}
  BY <1>1, <1>2, <1>3 DEF SyncedInv, SyncPcs, HostsOf
<1>4. CASE /\ pc' = "labels_get" /\ result' = result
           /\ host' \in todo /\ todo' = todo \ {host'}
  <2>1. Unlabelled' = todo /\ Untainted' = todo
    BY <1>1, <1>4 DEF Unlabelled, Untainted
  <2> QED
    BY <1>1, <1>2, <1>4, <2>1 DEF SyncedInv, HostsOf
<1> QED
  BY <1>1, <1>3, <1>4, NextHostFacts

\* Hosts that are synced stay so until the next run.
LEMMA SyncedStep ==
    TypeInv /\ StageInv /\ CopyInv /\ SyncedInv /\ [Next]_vars
        => SyncedInv'
<1> SUFFICES ASSUME TypeInv, StageInv, CopyInv, SyncedInv, [Next]_vars
             PROVE  SyncedInv'
  OBVIOUS
<1>1. ASSUME NEW c \in Configs, StartUp(c) PROVE  SyncedInv'
  BY <1>1 DEF StartUp, SyncedInv, SyncPcs
<1>2. CASE DeleteNode
  BY <1>2, DeleteEffect DEF DeleteNode, SyncedInv, SyncPcs, StageInv, Ended
<1>3. CASE SaveAndDeploy
  <2>1. /\ saved' = conf /\ UNCHANGED <<labels, taints, conf, missed>>
        /\ NextHost(HostsOf(conf)) /\ result = "none"
    BY <1>3 DEF SaveAndDeploy, StageInv
  <2>2. \/ pc' = "idle" /\ HostsOf(conf) = {}
        \/ /\ pc' = "labels_get" /\ result' = "none"
           /\ Unlabelled' = HostsOf(conf) /\ Untainted' = HostsOf(conf)
    BY <2>1, NextHostFacts, HostsOfFacts DEF Unlabelled, Untainted
  <2> QED
    BY <2>1, <2>2 DEF SyncedInv, SyncPcs, HostsOf
<1>4. CASE DoSyncLabelsGet
  <2>1. /\ pc = "labels_get" /\ pc \in SyncPcs /\ host \in Hosts /\ result = "none"
        /\ Unlabelled = todo \cup {host} /\ Untainted = todo \cup {host}
        /\ UNCHANGED <<labels, taints, saved, todo, host, conf>>
    BY <1>4, LabelsGetEffect, HostsOfFacts DEF StageInv, SyncPcs, Unlabelled,
       Untainted
  <2>2. CASE pc' = "idle" /\ result' = "err"
    BY <2>2 DEF SyncedInv, SyncPcs
  <2>3. CASE pc' \in {"labels_get", "labels_put"} /\ UNCHANGED <<result, missed>>
    BY <2>1, <2>3 DEF SyncedInv, Unlabelled, Untainted, SyncPcs, Labelled,
       Tainted, HostsOf
  <2>4. CASE /\ pc' = "taints_get" /\ UNCHANGED result /\ missed \subseteq missed'
             /\ host \in missed' \/ labels[host] = SyncedLabels(host)
    <3>1. host \in missed' \/ Labelled(host)
      BY <2>1, <2>4, NewLabels DEF Labelled
    <3>2. Unlabelled' = todo /\ Untainted' = Untainted
      BY <2>1, <2>4 DEF Unlabelled, Untainted
    <3> QED
      BY <2>1, <2>4, <3>1, <3>2 DEF SyncedInv, Labelled, Tainted, HostsOf
  <2> QED
    BY <1>4, <2>2, <2>3, <2>4, LabelsGetEffect DEF Retried, Ended
<1>5. CASE DoSyncLabelsPut
  <2>1. /\ pc = "labels_put" /\ pc \in SyncPcs /\ host \in Hosts /\ result = "none"
        /\ Unlabelled = todo \cup {host} /\ Untainted = todo \cup {host}
        /\ UNCHANGED <<taints, saved, todo, host, conf, missed>>
    BY <1>5, LabelsPutEffect, HostsOfFacts DEF StageInv, SyncPcs, Unlabelled,
       Untainted
  <2>2. CASE pc' = "idle" /\ result' = "err"
    BY <2>2 DEF SyncedInv, SyncPcs
  <2>3. CASE pc' = "labels_get" /\ UNCHANGED <<result, labels>>
    BY <2>1, <2>3 DEF SyncedInv, Unlabelled, Untainted, SyncPcs, Labelled,
       Tainted, HostsOf
  <2>4. CASE /\ ~stale /\ labels' = [labels EXCEPT ![host] = copy.labels]
             /\ pc' = "taints_get" /\ UNCHANGED result
    <3>1. labels'[host] = SyncedLabels(host)
      BY <2>1, <2>4 DEF CopyInv, TypeInv
    <3>2. \A k \in Hosts \ {host} : labels'[k] = labels[k]
      BY <2>1, <2>4 DEF TypeInv
    <3>3. Labelled(host)'
      BY <2>1, <3>1, NewLabels DEF Labelled
    <3>4. Unlabelled' = todo /\ Untainted' = Untainted
      BY <2>1, <2>4 DEF Unlabelled, Untainted
    <3> QED
      BY <2>1, <2>4, <3>2, <3>3, <3>4 DEF SyncedInv, Labelled, Tainted, HostsOf
  <2> QED
    BY <1>5, <2>2, <2>3, <2>4, LabelsPutEffect DEF Retried, Ended
<1>6. CASE DoSyncTaintsGet
  <2>1. /\ pc = "taints_get" /\ pc \in SyncPcs /\ result = "none"
        /\ UNCHANGED <<labels, taints, saved, conf>>
    BY <1>6, TaintsGetEffect DEF StageInv, SyncPcs
  <2>2. CASE NextHost(todo) /\ missed' = missed \cup {host}
    BY <2>1, <2>2, NextHostSynced
  <2>3. CASE pc' \in {"taints_get", "taints_put"} /\ UNCHANGED <<result, missed, todo, host>>
    BY <2>1, <2>3 DEF SyncedInv, Unlabelled, Untainted, SyncPcs, Labelled,
       Tainted, HostsOf
  <2>4. CASE pc' = "idle" /\ result' = "panic"
    BY <2>4 DEF SyncedInv, SyncPcs
  <2> QED
    BY <1>6, <2>2, <2>3, <2>4, TaintsGetEffect DEF Retried, Ended
<1>7. CASE DoSyncTaintsPut
  <2>1. /\ pc = "taints_put" /\ pc \in SyncPcs /\ host \in Hosts /\ result = "none"
        /\ UNCHANGED <<labels, saved, conf, missed>>
    BY <1>7, TaintsPutEffect, HostsOfFacts DEF StageInv, SyncPcs
  <2>2. CASE /\ ~stale /\ taints' = [taints EXCEPT ![host] = copy.taints]
             /\ NextHost(todo)
    <3>1. taints'[host] = SyncedTaints(host) /\ ~Panics(host)
      BY <2>1, <2>2 DEF CopyInv, TypeInv
    <3>2. \A k \in Hosts \ {host} : taints'[k] = taints[k]
      BY <2>1, <2>2 DEF TypeInv
    <3>3. conf[host].roles = {"etcd"} => EtcdTaint \in ToSet(taints'[host])
      BY <2>1, <3>1, NewTaints
    <3> QED
      BY <2>1, <2>2, <3>2, <3>3, NextHostSynced
  <2>3. CASE pc' = "taints_get" /\ UNCHANGED <<result, todo, host, taints>>
    BY <2>1, <2>3 DEF SyncedInv, Unlabelled, Untainted, SyncPcs, Labelled,
       Tainted, HostsOf
  <2>4. CASE pc' = "idle" /\ result' = "panic"
    BY <2>4 DEF SyncedInv, SyncPcs
  <2> QED
    BY <1>7, <2>2, <2>3, <2>4, TaintsPutEffect DEF Retried, Ended
<1>8. CASE Abort
  BY <1>8 DEF Abort, SyncedInv, SyncPcs, End
<1>9. ASSUME NEW h \in Hosts, KubeletRegisters(h) PROVE  SyncedInv'
  BY <1>9 DEF KubeletRegisters, SyncedInv, Unlabelled, Untainted, Labelled,
     Tainted, HostsOf
<1>10. ASSUME NEW h \in Hosts, Heartbeat(h) PROVE  SyncedInv'
  BY <1>10 DEF Heartbeat, SyncedInv, Unlabelled, Untainted, Labelled, Tainted,
     HostsOf
<1>11. ASSUME NEW h \in Hosts, ForeignWrite(h) PROVE  SyncedInv'
  <2>1. /\ \A k \in Hosts : (Labelled(k) => Labelled(k)') /\ (Tainted(k) => Tainted(k)')
        /\ UNCHANGED <<pc, conf, saved, todo, host, missed, result>>
    BY <1>11, ForeignWriteFacts DEF ForeignWrite, Labelled, Tainted
  <2> QED
    BY <2>1, HostsOfFacts DEF SyncedInv, Unlabelled, Untainted, HostsOf
<1>12. CASE UNCHANGED vars
  BY <1>12 DEF vars, nodeVars, SyncedInv, Unlabelled, Untainted, Labelled,
     Tainted, HostsOf
<1> QED
  BY <1>1, <1>2, <1>3, <1>4, <1>5, <1>6, <1>7, <1>8, <1>9, <1>10, <1>11, <1>12
     DEF Next, RkeStep

-----------------------------------------------------------------------------
LEMMA NodeInvInit == Init => NodeInv
<1> SUFFICES ASSUME Init PROVE  NodeInv
  OBVIOUS
<1>1. NoConfig \in [Hosts -> HostConfig] /\ <<>> \in Seq(Taints)
  BY EmptySeq DEF NoConfig, HostConfig
<1>2. TypeInv
  BY <1>1 DEF Init, TypeInv, NoCopy, Results
<1>3. StageInv /\ CopyInv /\ AbsentInv
  BY DEF Init, StageInv, CopyInv, AbsentInv, SyncPcs
<1>4. UserInv /\ SyncedInv
  BY DEF Init, UserInv, SyncedInv, SyncPcs
<1> QED
  BY <1>2, <1>3, <1>4 DEF NodeInv

LEMMA NodeInvStep == NodeInv /\ [Next]_vars => NodeInv'
BY TypeStep, StageStep, CopyStep, AbsentStep, UserStep, SyncedStep DEF NodeInv

\* The inductive invariant holds in every reachable state.
THEOREM NodeInvHolds == Spec => []NodeInv
BY NodeInvInit, NodeInvStep, PTL DEF Spec

\* For any hosts, labels and configurations, whatever other writers do and
\* wherever earlier runs died: a successful SyncLabelsAndTaints leaves every Node
\* it found with the labels of cluster.yml.
THEOREM LabelsAsConfiguredHolds == Spec => []LabelsAsConfigured
<1>1. NodeInv => LabelsAsConfigured
  <2> SUFFICES ASSUME NodeInv, result = "ok", NEW h \in HostsOf(conf) \ missed
               PROVE  /\ labels[h] \cap Roles = conf[h].roles
                      /\ conf[h].labels \subseteq labels[h]
                      /\ h \notin lost => labels[h] \cap UserLabels = conf[h].labels
    BY DEF LabelsAsConfigured
  <2>1. h \in Hosts /\ pc = "idle" /\ saved = conf /\ Labelled(h)
    BY HostsOfFacts DEF NodeInv, SyncedInv
  <2>2. h \notin lost => labels[h] \cap UserLabels \subseteq conf[h].labels
    BY <2>1 DEF NodeInv, UserInv, SyncPcs
  <2>3. conf[h].labels \subseteq UserLabels
    BY <2>1 DEF NodeInv, TypeInv, HostConfig
  <2> QED
    BY <2>1, <2>2, <2>3 DEF Labelled
<1> QED
  BY <1>1, NodeInvHolds, PTL

\* ... and every host that only has the etcd role with the taint that keeps
\* workloads off it.
THEOREM EtcdTaintedHolds == Spec => []EtcdTainted
<1>1. NodeInv => EtcdTainted
  BY DEF NodeInv, SyncedInv, EtcdTainted, Tainted
<1> QED
  BY <1>1, NodeInvHolds, PTL

\* No step of a run or of others undoes what somebody else wrote to a Node.
LEMMA ForeignStep ==
    ASSUME NodeInv, [Next]_vars, NEW h \in exists \cap exists'
    PROVE  /\ labels[h] \cap {"foreign"} \subseteq labels'[h]
           /\ ForeignTaint \in ToSet(taints[h]) /\ ToDelTaints(h) = <<>>
                 => ForeignTaint \in ToSet(taints'[h])
<1>0. TypeInv /\ StageInv /\ CopyInv /\ h \in Hosts
  BY DEF NodeInv, TypeInv
<1>1. ASSUME NEW c \in Configs, StartUp(c)
      PROVE  UNCHANGED <<labels, taints>>
  BY <1>1 DEF StartUp
<1>2. CASE DeleteNode
  <2>1. \/ \E k \in todo : /\ exists' = exists \ {k}
                           /\ labels' = [labels EXCEPT ![k] = {}]
                           /\ taints' = [taints EXCEPT ![k] = <<>>]
        \/ UNCHANGED <<labels, taints>>
    BY <1>2 DEF DeleteNode
  <2>2. labels'[h] = labels[h] /\ taints'[h] = taints[h]
    BY <1>0, <2>1 DEF TypeInv
  <2> QED
    BY <2>2
<1>3. CASE SaveAndDeploy \/ DoSyncLabelsGet \/ DoSyncTaintsGet
  BY <1>3 DEF SaveAndDeploy, DoSyncLabelsGet, DoSyncTaintsGet
<1>4. CASE DoSyncLabelsPut
  <2>1. taints' = taints /\ pc = "labels_put" /\ host \in Hosts
    BY <1>0, <1>4, LabelsPutEffect, HostsOfFacts DEF StageInv, SyncPcs
  <2>2. CASE ~stale /\ labels' = [labels EXCEPT ![host] = copy.labels]
    <3>1. labels'[h] \in {labels[h], SyncedLabels(h)}
      BY <1>0, <2>1, <2>2 DEF CopyInv, TypeInv
    <3> QED
      BY <1>0, <2>1, <3>1, NewLabels
  <2>3. CASE UNCHANGED labels
    BY <2>1, <2>3
  <2> QED
    BY <1>4, <2>2, <2>3, LabelsPutEffect
<1>5. CASE DoSyncTaintsPut
  <2>1. labels' = labels /\ pc = "taints_put" /\ host \in Hosts
    BY <1>0, <1>5, TaintsPutEffect, HostsOfFacts DEF StageInv, SyncPcs
  <2>2. CASE ~stale /\ taints' = [taints EXCEPT ![host] = copy.taints]
    <3>1. \/ taints'[h] = taints[h]
          \/ taints'[h] = SyncedTaints(h) /\ ~Panics(h)
      BY <1>0, <2>1, <2>2 DEF CopyInv, TypeInv
    <3> QED
      BY <1>0, <2>1, <3>1, NewTaints
  <2>3. CASE UNCHANGED taints
    BY <2>1, <2>3
  <2> QED
    BY <1>5, <2>2, <2>3, TaintsPutEffect
<1>6. CASE Abort
  BY <1>6 DEF Abort, nodeVars
<1>7. ASSUME NEW k \in Hosts, KubeletRegisters(k) \/ Heartbeat(k)
      PROVE  UNCHANGED <<labels, taints>>
  BY <1>7 DEF KubeletRegisters, Heartbeat
<1>8. ASSUME NEW k \in Hosts, ForeignWrite(k)
      PROVE  /\ labels[h] \subseteq labels'[h]
             /\ ToSet(taints[h]) \subseteq ToSet(taints'[h])
  BY <1>0, <1>8, ForeignWriteFacts
<1>9. CASE UNCHANGED vars
  BY <1>9 DEF vars, nodeVars
<1> QED
  BY <1>1, <1>2, <1>3, <1>4, <1>5, <1>6, <1>7, <1>8, <1>9 DEF Next, RkeStep

\* rke's read-modify-write of a Node loses no label and no taint of anybody
\* else, however the writes interleave.
THEOREM ForeignKeptHolds == Spec => ForeignKept
<1>1. NodeInv /\ [Next]_vars =>
         [\A h \in exists \cap exists' :
             /\ labels[h] \cap {"foreign"} \subseteq labels'[h]
             /\ ForeignTaint \in ToSet(taints[h]) /\ ToDelTaints(h) = <<>>
                   => ForeignTaint \in ToSet(taints'[h])]_vars
  BY ForeignStep
<1> QED
  BY <1>1, NodeInvHolds, PTL DEF Spec, ForeignKept
=============================================================================
