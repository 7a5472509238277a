------------------------------- MODULE NodeSync -------------------------------
(***************************************************************************)
(* What "rke up" does to the cluster's Node objects: it deletes the Nodes  *)
(* of hosts that lose their role (hosts.DeleteNode), and at the end of the *)
(* run gives every Node its labels and the taint that keeps workloads off  *)
(* pure etcd hosts (SyncLabelsAndTaints, k8s/node.go).                     *)
(*                                                                         *)
(* A Node is read, changed locally and written back; the API server        *)
(* refuses the write if anybody, the kubelet's heartbeat included, has     *)
(* written the Node in between, and rke reads again, a number of times.    *)
(* Kubelets register on their own time, so a Node may not be there yet.    *)
(*                                                                         *)
(* Which labels and taints to delete is derived from the difference        *)
(* between cluster.yml and the state the previous run saved, and the state *)
(* is saved before the Nodes are synced.                                   *)
(***************************************************************************)
EXTENDS Naturals, Sequences, SequencesExt

CONSTANTS
    Hosts,       \* the machines
    UserLabels,  \* labels that cluster.yml may give a host
    Configs,     \* configurations: for each host its roles and labels
    Tries,       \* attempts of SyncLabels and SyncTaints (6 in the code)
    MaxRuns      \* bound on the number of "rke up" runs

Roles == {"etcd", "controlplane", "worker"}
HostConfig == [roles : SUBSET Roles, labels : SUBSET UserLabels]
NoConfig == [h \in Hosts |-> [roles |-> {}, labels |-> {}]]

ASSUME NodeAssumption ==
    /\ Configs \subseteq [Hosts -> HostConfig]
    /\ "none" \notin Hosts
    /\ UserLabels \cap (Roles \cup {"foreign"}) = {}
    /\ Tries \in Nat \ {0} /\ MaxRuns \in Nat

\* rke's own taint and one that somebody else puts on a Node; role labels are
\* written as the roles, "foreign" is a label rke knows nothing of.
EtcdTaint == "unschedulableEtcdTaint"
ForeignTaint == "foreignTaint"
Labels == Roles \cup UserLabels \cup {"foreign"}

VARIABLES
    \* the API server
    exists,    \* hosts with a Node
    labels,    \* labels[h] of its Node
    taints,    \* taints[h], a list
    stale,     \* the Node rke last read has been written since
    saved,     \* cluster state in the config map
    pending,   \* hosts whose kubelet has started and not registered yet
    \* the rke process
    pc, tries, conf, cur,
    todo,      \* hosts left in the current loop
    host,      \* the host being synced
    copy,      \* rke's copy of the Node it is working on
    result,
    \* history
    runs,
    missed,    \* hosts the last run found without a Node when it synced
    lost       \* hosts whose Node may have labels no state tells of any more

NoHost == "none"
NoCopy == [labels |-> {}, taints |-> <<>>]

nodeVars == <<exists, labels, taints, stale, pending>>
vars == <<nodeVars, saved, pc, todo, host, tries, conf, cur, copy, result,
          runs, missed, lost>>

Init ==
    /\ exists = {} /\ pending = {} /\ stale = FALSE
    /\ labels = [h \in Hosts |-> {}] /\ taints = [h \in Hosts |-> <<>>]
    /\ saved = NoConfig /\ conf = NoConfig /\ cur = NoConfig
    /\ pc = "idle" /\ todo = {} /\ tries = 0 /\ result = "none"
    /\ host = NoHost /\ copy = NoCopy
    /\ runs = 0 /\ missed = {} /\ lost = {}

-----------------------------------------------------------------------------
(* What a run wants of a host (InvertIndexHosts, syncLabels, reconcile*,     *)
(* RunWorkerPlane).                                                         *)

HostsOf(c) == {h \in Hosts : c[h].roles # {}}
RolesLost(h) == cur[h].roles \ conf[h].roles
RolesGained(h) == conf[h].roles \ cur[h].roles

ToAddLabels(h) == conf[h].roles \cup conf[h].labels

\* Mutant of ToDelLabels: only what the previous state names.
ToDelLabelsByState(h) == RolesLost(h) \cup (cur[h].labels \ conf[h].labels)

\* The labels of roles the host does not have, and those of the previous
\* state's host that cluster.yml has dropped.
ToDelLabels(h) == (Roles \ conf[h].roles) \cup (cur[h].labels \ conf[h].labels)

\* Mutant of ToAddTaints: new hosts only.
ToAddTaintsNew(h) ==
    IF conf[h].roles = {"etcd"} /\ cur[h].roles = {}
    THEN <<EtcdTaint>> ELSE <<>>

ToAddTaints(h) == IF conf[h].roles = {"etcd"} THEN <<EtcdTaint>> ELSE <<>>

\* Once for a gained worker role and once for a gained control plane role,
\* and only when there is a previous state.
ToDelTaints(h) ==
    LET one(role) == IF role \in RolesGained(h) /\ "etcd" \in conf[h].roles
                     THEN <<EtcdTaint>> ELSE <<>>
    IN  IF cur = NoConfig THEN <<>> ELSE one("worker") \o one("controlplane")

\* The reconcilers delete the Node of a host that loses a role, unless it is
\* a control host (or, when it loses that, still a worker).
DeletesNode(h) ==
    \/ RolesLost(h) \cap {"etcd", "worker"} # {}
       /\ "controlplane" \notin cur[h].roles
    \/ "controlplane" \in RolesLost(h)
       /\ "worker" \notin cur[h].roles \ RolesLost(h)

-----------------------------------------------------------------------------
(* One run.                                                                 *)

Goto(stage) == pc' = stage /\ UNCHANGED result
End(how) == pc' = "idle" /\ result' = how

StartUp(c) ==
    /\ pc = "idle" /\ runs < MaxRuns
    /\ conf' = c /\ cur' = saved
    /\ pc' = "delete_get" /\ result' = "none"
    /\ runs' = runs + 1 /\ missed' = {}
    /\ tries' = 0
    /\ todo' = {h \in Hosts : DeletesNode(h)'}
    /\ host' = NoHost /\ copy' = NoCopy /\ stale' = FALSE
    /\ UNCHANGED <<exists, labels, taints, pending, saved, lost>>

\* A Node is read; the copy is fresh until somebody writes the Node.
Read(h, l, t) == copy' = [labels |-> l, taints |-> t] /\ stale' = FALSE

\* An attempt fails: wait and read again, or give up after the last one.
Retry(again, giveUp) ==
    /\ tries' = IF tries + 1 = Tries THEN 0 ELSE tries + 1
    /\ IF tries + 1 = Tries THEN End(giveUp) ELSE Goto(again)

\* The run ends early; if its state is saved, what it meant to delete from
\* the Nodes is forgotten.
LostIf(ends) ==
    lost' = IF ends /\ saved = conf /\ cur # conf THEN lost \cup HostsOf(conf)
            ELSE lost

\* hosts.DeleteNode: cordon the Node (CordonUncordon retries on its own and
\* does not stop at its first success), then delete it.  A Node that is not
\* there is fine; an error ends the run, but for reconcileEtcd, which warns.
DeleteNode ==
    /\ pc = "delete_get"
    /\ \E h \in todo :
       \/ /\ exists' = exists \ {h}
          /\ labels' = [labels EXCEPT ![h] = {}]
          /\ taints' = [taints EXCEPT ![h] = <<>>]
          /\ pending' = pending \ {h}
          /\ todo' = todo \ {h}
          /\ UNCHANGED <<pc, result, lost>>
       \/ /\ h \in exists /\ End("err")
          /\ LostIf(TRUE)
          /\ UNCHANGED <<exists, labels, taints, pending, todo>>
       \/ /\ h \in exists /\ RolesLost(h) = {"etcd"}
          /\ todo' = todo \ {h}
          /\ UNCHANGED <<exists, labels, taints, pending, pc, result, lost>>
    /\ UNCHANGED <<stale, saved, host, tries, conf, cur, copy, runs, missed>>

\* SyncLabelsAndTaints goes through a Go map, so the next host is any of those
\* left; without one the run is over.
NextHost(left) ==
    \/ left = {} /\ End("ok") /\ UNCHANGED <<todo, host>>
    \/ \E h \in left : host' = h /\ todo' = left \ {h} /\ Goto("labels_get")

\* SaveClusterState, then RunWorkerPlane starts the missing kubelets; their
\* Nodes appear later.  The state forgets the labels of a host that has left
\* the cluster, whether its Node could be deleted or not.
SaveAndDeploy ==
    /\ pc = "delete_get" /\ todo = {}
    /\ saved' = conf
    /\ pending' = pending \cup (HostsOf(conf) \ exists)
    /\ NextHost(HostsOf(conf))
    /\ lost' = lost \cup (exists \ HostsOf(conf))
    /\ UNCHANGED <<exists, labels, taints, stale, tries, conf, cur, copy, runs,
                   missed>>

\* doSyncLabels up to its Update.  Without a Node there is nothing to do, and
\* nobody is told.
DoSyncLabelsGet ==
    /\ pc = "labels_get"
    /\ LET h   == host
           new == (labels[h] \ ToDelLabels(h)) \cup ToAddLabels(h)
       IN
       \/ /\ h \notin exists
          /\ missed' = missed \cup {h}
          /\ Goto("taints_get") /\ tries' = 0
          /\ UNCHANGED <<copy, stale, lost>>
       \/ /\ h \in exists
          /\ Read(h, new, taints[h])
          /\ IF new = labels[h] THEN Goto("taints_get") /\ tries' = 0
             ELSE Goto("labels_put") /\ UNCHANGED tries
          /\ UNCHANGED <<missed, lost>>
       \/ /\ Retry("labels_get", "err")
          /\ LostIf(pc' = "idle")
          /\ UNCHANGED <<copy, stale, missed>>
    /\ UNCHANGED <<exists, labels, taints, pending, saved, todo, host, conf,
                   cur, runs>>

\* Mutant of DoSyncLabelsPut: the write does not carry the version it read.
DoSyncLabelsBlind ==
    /\ pc = "labels_put"
    /\ labels' = [labels EXCEPT ![host] = copy.labels]
    /\ Goto("taints_get") /\ tries' = 0
    /\ UNCHANGED <<exists, taints, stale, pending, saved, todo, host, conf,
                   cur, copy, runs, missed, lost>>

DoSyncLabelsPut ==
    /\ pc = "labels_put"
    /\ \/ /\ ~stale /\ host \in exists
          /\ labels' = [labels EXCEPT ![host] = copy.labels]
          /\ Goto("taints_get") /\ tries' = 0
          /\ UNCHANGED lost
       \/ /\ Retry("labels_get", "err")
          /\ LostIf(pc' = "idle")
          /\ UNCHANGED labels
    /\ UNCHANGED <<exists, taints, stale, pending, saved, todo, host, conf,
                   cur, copy, runs, missed>>

\* doSyncTaints, adding: there is at most one taint to add.
AddTaints(list, adds) ==
    IF adds = <<>> \/ adds[1] \in ToSet(list) THEN list
    ELSE Append(list, adds[1])

\* doSyncTaints, removing: a taint that is there is removed at the position it
\* has in the list of taints to delete.  Beyond the end the slice expression
\* panics.
CanDel(list, dels, i) == dels[i] \notin ToSet(list) \/ i <= Len(list)
DelAt(list, dels, i) ==
    IF dels[i] \in ToSet(list) THEN RemoveAt(list, i) ELSE list

DelTaints(list, dels) ==
    CASE dels = <<>>    -> list
      [] Len(dels) = 1  -> DelAt(list, dels, 1)
      [] Len(dels) = 2  -> DelAt(DelAt(list, dels, 1), dels, 2)

DelPanics(list, dels) ==
    Len(dels) = 2 /\ ~CanDel(DelAt(list, dels, 1), dels, 2)

DoSyncTaintsGet ==
    /\ pc = "taints_get"
    /\ LET h    == host
           with == AddTaints(taints[h], ToAddTaints(h))
       IN
       \/ /\ h \notin exists
          /\ missed' = missed \cup {h}
          /\ NextHost(todo) /\ tries' = 0
          /\ UNCHANGED <<copy, stale, lost>>
       \/ /\ h \in exists /\ ~DelPanics(with, ToDelTaints(h))
          /\ Read(h, labels[h], DelTaints(with, ToDelTaints(h)))
          /\ Goto("taints_put")
          /\ UNCHANGED <<todo, host, tries, missed, lost>>
       \/ /\ h \in exists /\ DelPanics(with, ToDelTaints(h))
          /\ End("panic") /\ LostIf(TRUE)
          /\ UNCHANGED <<todo, host, tries, copy, stale, missed>>
       \/ /\ Retry("taints_get", "panic")
          /\ LostIf(pc' = "idle")
          /\ UNCHANGED <<todo, host, copy, stale, missed>>
    /\ UNCHANGED <<exists, labels, taints, pending, saved, conf, cur, runs>>

\* Mutant of DoSyncTaintsPut: the retry loop does not count.
DoSyncTaintsForever ==
    /\ pc = "taints_put"
    /\ \/ /\ ~stale
          /\ taints' = [taints EXCEPT ![host] = copy.taints]
          /\ NextHost(todo) /\ tries' = 0
       \/ /\ Goto("taints_get")
          /\ UNCHANGED <<taints, todo, host, tries>>
    /\ UNCHANGED <<exists, labels, stale, pending, saved, conf, cur, copy,
                   runs, missed, lost>>

\* When the last attempt fails, SyncTaints formats its error with the name of
\* a Node it never set: a nil dereference.
DoSyncTaintsPut ==
    /\ pc = "taints_put"
    /\ \/ /\ ~stale /\ host \in exists
          /\ taints' = [taints EXCEPT ![host] = copy.taints]
          /\ NextHost(todo) /\ tries' = 0
          /\ UNCHANGED lost
       \/ /\ Retry("taints_get", "panic")
          /\ LostIf(pc' = "idle")
          /\ UNCHANGED <<taints, todo, host>>
    /\ UNCHANGED <<exists, labels, stale, pending, saved, conf, cur, copy,
                   runs, missed>>

\* rke is killed, or a step in between fails.
Abort ==
    /\ pc # "idle"
    /\ End("err") /\ LostIf(TRUE)
    /\ UNCHANGED <<nodeVars, saved, todo, host, tries, conf, cur, copy, runs,
                   missed>>

-----------------------------------------------------------------------------
(* The others who write Nodes.                                              *)

Touched(h) == stale' = (stale \/ h = host)

KubeletRegisters(h) ==
    /\ h \in pending
    /\ pending' = pending \ {h}
    /\ exists' = exists \cup {h}
    /\ UNCHANGED <<labels, taints, stale, saved, pc, todo, host, tries, conf,
                   cur, copy, result, runs, missed, lost>>

\* A heartbeat, or an operator's "kubectl label" and "kubectl taint".
Heartbeat(h) ==
    /\ h \in exists /\ Touched(h)
    /\ UNCHANGED <<exists, labels, taints, pending, saved, pc, todo, host,
                   tries, conf, cur, copy, result, runs, missed, lost>>

ForeignWrite(h) ==
    /\ h \in exists /\ Touched(h)
    /\ \/ /\ labels' = [labels EXCEPT ![h] = @ \cup {"foreign"}]
          /\ UNCHANGED taints
       \/ /\ ForeignTaint \notin ToSet(taints[h])
          /\ taints' = [taints EXCEPT ![h] = <<ForeignTaint>> \o @]
          /\ UNCHANGED labels
    /\ UNCHANGED <<exists, pending, saved, pc, todo, host, tries, conf, cur,
                   copy, result, runs, missed, lost>>

-----------------------------------------------------------------------------
RkeStep ==
    \/ DeleteNode \/ SaveAndDeploy
    \/ DoSyncLabelsGet \/ DoSyncLabelsPut
    \/ DoSyncTaintsGet \/ DoSyncTaintsPut

Next ==
    \/ \E c \in Configs : StartUp(c)
    \/ RkeStep \/ Abort
    \/ \E h \in Hosts : KubeletRegisters(h) \/ Heartbeat(h) \/ ForeignWrite(h)

\* rke is sequential; nothing is assumed of the others.
Spec == Init /\ [][Next]_vars /\ WF_vars(RkeStep)

-----------------------------------------------------------------------------
(* Properties.                                                              *)

\* After a successful run every Node that was there to be synced has exactly
\* the labels of its host's roles, whatever earlier runs did or failed to do,
\* and all the labels of cluster.yml; and it has no label that cluster.yml
\* dropped, unless a run was cut off between saving its state and the sync, or
\* the host once left the cluster and reconcileEtcd could not delete its Node.
LabelsAsConfigured ==
    result = "ok" =>
        \A h \in HostsOf(conf) \ missed :
            /\ labels[h] \cap Roles = conf[h].roles
            /\ conf[h].labels \subseteq labels[h]
            /\ h \notin lost => labels[h] \cap UserLabels = conf[h].labels

\* Workloads are kept off every pure etcd host whose Node was there to be
\* synced.
EtcdTainted ==
    result = "ok" =>
        \A h \in HostsOf(conf) \ missed :
            conf[h].roles = {"etcd"} => EtcdTaint \in ToSet(taints[h])

\* rke never undoes what somebody else wrote to a Node it keeps: no label, and
\* no taint unless the run is deleting taints from the Node.
ForeignKept ==
    [][\A h \in exists \cap exists' :
          /\ labels[h] \cap {"foreign"} \subseteq labels'[h]
          /\ ForeignTaint \in ToSet(taints[h]) /\ ToDelTaints(h) = <<>>
                => ForeignTaint \in ToSet(taints'[h])]_vars

\* Every run ends, however often the others write the Nodes it works on.
RunsEnd == pc # "idle" ~> pc = "idle"

\* reconcileWorker and reconcileControl, "attempt to remove unschedulable
\* taint": after a run that succeeds, an etcd host with another role does not
\* carry the taint, if its Node was there and no earlier run was cut off.
Schedulable ==
    result = "ok" =>
        \A h \in HostsOf(conf) \ (missed \cup lost) :
            conf[h].roles \notin {{}, {"etcd"}} =>
                EtcdTaint \notin ToSet(taints[h])
=============================================================================
