--------------------------- MODULE PortCheckProofs ---------------------------
(***************************************************************************)
(* Proofs about PortCheck, for every set of machines, every choice of      *)
(* configurations and any number of runs and faults: a run that passes the *)
(* port checks goes on with every connection open and no listener left,    *)
(* and the checks raise no false alarm.                                    *)
(*                                                                         *)
(* What makes the three inductive is the progress of a stage: the hosts    *)
(* whose goroutine has returned without an error are those of GroupOf that *)
(* are no longer in group, and each of them already has what the stage is  *)
(* for.  Wait turns that into a fact about the whole plane, which the      *)
(* later stages keep.                                                      *)
(***************************************************************************)
EXTENDS PortCheck, TLAPS

DeployPcs == {"deploy_etcd", "deploy_control", "deploy_worker"}
CheckPcs == {"etcd_etcd", "control_etcd", "worker_etcd", "control_worker",
             "worker_control"}
RemovePcs == {"remove_etcd", "remove_control", "remove_worker"}
SavePcs == {"deploy_control_plane", "deploy_workers"}
Pcs == DeployPcs \cup CheckPcs \cup RemovePcs \cup SavePcs
         \cup {"idle", "ports", "api_port", "reconcile"}

ListenerStates == {"absent", "created", "running"}

\* The type invariant.  checked is set exactly in the stages of the checks.
TypeInv ==
    /\ listener \in [Hosts -> [Planes -> ListenerStates]]
    /\ serves \in [Hosts -> SUBSET Planes]
    /\ blocked \subseteq Pairs
    /\ saved \in [Hosts -> SUBSET Planes]
    /\ conf \in [Hosts -> SUBSET Planes]
    /\ cur \in [Hosts -> SUBSET Planes]
    /\ pc \in Pcs
    /\ group \subseteq Hosts
    /\ failed \in BOOLEAN /\ checked \in BOOLEAN
    /\ alarm \in BOOLEAN /\ cut \in BOOLEAN
    /\ pc \in DeployPcs \cup CheckPcs \cup RemovePcs \cup {"api_port"} => checked
    /\ pc = "ports" => ~checked

-----------------------------------------------------------------------------
(* What the checks have established so far.                                 *)

\* No firewall between the hosts of S and those that a stage checks, but for
\* hosts whose checker died.
OpenFrom(S, s) ==
    \A h \in S :
        <<s, h>> \notin unseen =>
            \A t \in On(CheckStages[s][2], conf) : <<h, t>> \notin blocked
Open(s) == OpenFrom(On(CheckStages[s][1], conf), s)

\* The stages after all checks, in the runs that did them.
PastChecks == pc \in RemovePcs \cup {"api_port"} \/ (pc = "reconcile" /\ checked)

\* Every stage of the checks that is over has found its connections open, and
\* so have the hosts that are done in the current one.
OpenInv ==
    /\ (PastChecks \/ pc \in CheckPcs \ {"etcd_etcd"}) => Open("etcd_etcd")
    /\ (PastChecks \/ pc \in {"worker_etcd", "control_worker", "worker_control"})
         => Open("control_etcd")
    /\ (PastChecks \/ pc \in {"control_worker", "worker_control"})
         => Open("worker_etcd")
    /\ (PastChecks \/ pc = "worker_control") => Open("control_worker")
    /\ PastChecks => Open("worker_control")
    /\ (pc \in CheckPcs /\ ~failed) =>
          OpenFrom(On(CheckStages[pc][1], conf) \ group, pc)

-----------------------------------------------------------------------------
(* What the removal of the listeners has established so far.                *)

ClearOn(S, p) == \A h \in S : listener[h][p] = "absent"
Clear(p) == ClearOn(On(p, conf), p)

PastRemoval == pc = "reconcile" /\ checked

ClearInv ==
    /\ (PastRemoval \/ pc \in {"remove_control", "remove_worker"}) => Clear("etcd")
    /\ (PastRemoval \/ pc = "remove_worker") => Clear("controlplane")
    /\ PastRemoval => Clear("worker")
    /\ (pc \in RemovePcs /\ ~failed) =>
          ClearOn(On(RemoveStages[pc], conf) \ group, RemoveStages[pc])

-----------------------------------------------------------------------------
(* Who answers on the ports of cluster.yml while they are checked: services *)
(* on the hosts of the saved state, listeners on the others.                *)

\* Unless a run was cut off between reconciling and deploying the workers,
\* the services of the saved state are up.
ServiceInv ==
    /\ (~cut /\ pc \notin SavePcs) => \A h \in Hosts : saved[h] \subseteq serves[h]
    /\ pc = "deploy_workers" =>
          saved = conf /\ \A h \in Hosts : conf[h] \ {"worker"} \subseteq serves[h]
    /\ pc \in Pcs \ {"idle", "deploy_workers"} => cur \in {saved, NoConfig}

AnswerOn(S, p) == \A h \in S : Answers(h, p)
AllAnswer(p) == AnswerOn(NewHosts(p), p)

ListenPcs == CheckPcs \cup {"api_port"}

\* Every new host answers once its plane has its listeners.
AnswerInv ==
    /\ pc \in ListenPcs \cup {"deploy_control", "deploy_worker"} => AllAnswer("etcd")
    /\ pc \in ListenPcs \cup {"deploy_worker"} => AllAnswer("controlplane")
    /\ pc \in ListenPcs => AllAnswer("worker")
    /\ (pc \in DeployPcs /\ ~failed) =>
          AnswerOn(NewHosts(DeployStages[pc]) \ group, DeployStages[pc])

\* The inductive invariant.
PortInv ==
    /\ TypeInv /\ OpenInv /\ ClearInv
    /\ ServiceInv /\ AnswerInv /\ NoFalseAlarm

-----------------------------------------------------------------------------
(* The tables of the stages, spelt out.                                     *)

LEMMA DeployFacts ==
    /\ DOMAIN DeployStages = DeployPcs
    /\ DeployStages["deploy_etcd"] = "etcd"
    /\ DeployStages["deploy_control"] = "controlplane"
    /\ DeployStages["deploy_worker"] = "worker"
    /\ \A s \in DeployPcs : DeployStages[s] \in Planes
BY DEF DeployStages, DeployPcs, Planes

LEMMA CheckFacts ==
    /\ DOMAIN CheckStages = CheckPcs
    /\ CheckStages["etcd_etcd"] = <<"etcd", "etcd">>
    /\ CheckStages["control_etcd"] = <<"controlplane", "etcd">>
    /\ CheckStages["worker_etcd"] = <<"worker", "etcd">>
    /\ CheckStages["control_worker"] = <<"controlplane", "worker">>
    /\ CheckStages["worker_control"] = <<"worker", "controlplane">>
    /\ \A s \in CheckPcs : CheckStages[s][1] \in Planes /\ CheckStages[s][2] \in Planes
BY DEF CheckStages, CheckPcs, Planes

LEMMA RemoveFacts ==
    /\ DOMAIN RemoveStages = RemovePcs
    /\ RemoveStages["remove_etcd"] = "etcd"
    /\ RemoveStages["remove_control"] = "controlplane"
    /\ RemoveStages["remove_worker"] = "worker"
    /\ \A s \in RemovePcs : RemoveStages[s] \in Planes
BY DEF RemoveStages, RemovePcs, Planes

LEMMA AfterFacts ==
    /\ DOMAIN After = DeployPcs \cup CheckPcs \cup RemovePcs
    /\ After["deploy_etcd"] = "deploy_control"
    /\ After["deploy_control"] = "deploy_worker"
    /\ After["deploy_worker"] = "etcd_etcd"
    /\ After["etcd_etcd"] = "control_etcd"
    /\ After["control_etcd"] = "worker_etcd"
    /\ After["worker_etcd"] = "control_worker"
    /\ After["control_worker"] = "worker_control"
    /\ After["worker_control"] = "api_port"
    /\ After["remove_etcd"] = "remove_control"
    /\ After["remove_control"] = "remove_worker"
    /\ After["remove_worker"] = "reconcile"
BY DEF After, DeployPcs, CheckPcs, RemovePcs

\* The hosts on which the goroutines of each stage work.
LEMMA GroupFacts ==
    /\ \A s \in DeployPcs : GroupOf(s) = NewHosts(DeployStages[s])
    /\ \A s \in CheckPcs : GroupOf(s) = On(CheckStages[s][1], conf)
    /\ \A s \in RemovePcs : GroupOf(s) = On(RemoveStages[s], conf)
    /\ \A s : GroupOf(s) \subseteq Hosts
<1>1. DeployPcs \cap CheckPcs = {} /\ DeployPcs \cap RemovePcs = {}
        /\ CheckPcs \cap RemovePcs = {}
  BY DEF DeployPcs, CheckPcs, RemovePcs
<1> QED
  BY <1>1, DeployFacts, CheckFacts, RemoveFacts DEF GroupOf, NewHosts, On

\* What changing one listener changes.
LEMMA ListenerFacts ==
    ASSUME NEW f \in [Hosts -> [Planes -> ListenerStates]], NEW h \in Hosts,
           NEW p \in Planes, NEW v \in ListenerStates
    PROVE  LET g == [f EXCEPT ![h][p] = v] IN
           /\ g \in [Hosts -> [Planes -> ListenerStates]]
           /\ \A k \in Hosts : \A q \in Planes :
                g[k][q] = IF k = h /\ q = p THEN v ELSE f[k][q]
OBVIOUS

\* What deployListener and removeListener do to the listeners.
LEMMA DeployEffect ==
    ASSUME TypeInv, NEW h \in Hosts, DeployListener(h)
    PROVE  /\ pc \in DeployPcs /\ h \in group
           /\ listener' \in [Hosts -> [Planes -> ListenerStates]]
           /\ \A k \in Hosts, q \in Planes : k # h \/ q # DeployStages[pc] =>
                 listener'[k][q] = listener[k][q]
           /\ failed' \/ (failed' = failed /\ Answers(h, DeployStages[pc])')
<1>1. /\ pc \in DeployPcs /\ DeployStages[pc] \in Planes /\ h \in group
      /\ serves' = serves /\ pc' = pc
  BY DeployFacts DEF DeployListener
<1> DEFINE p == DeployStages[pc]
           up == IF p \in serves[h] THEN "created" ELSE "running"
           half == IF listener[h][p] = "absent" THEN "created" ELSE listener[h][p]
<1>2. p \in Planes /\ up \in ListenerStates /\ half \in ListenerStates
  BY <1>1 DEF TypeInv, ListenerStates
<1>3. \/ listener' = [listener EXCEPT ![h][p] = up] /\ failed' = failed
      \/ listener' = [listener EXCEPT ![h][p] = half] /\ failed'
  BY DEF DeployListener
<1>4. CASE listener' = [listener EXCEPT ![h][p] = up] /\ failed' = failed
  <2> HIDE DEF up, p
  <2>1. /\ listener' \in [Hosts -> [Planes -> ListenerStates]]
        /\ \A k \in Hosts : \A q \in Planes :
              listener'[k][q] = IF k = h /\ q = p THEN up ELSE listener[k][q]
    BY <1>2, <1>4, ListenerFacts DEF TypeInv
  <2>2. p \in serves[h] \/ listener'[h][p] = "running"
    BY <1>2, <2>1 DEF up
  <2> QED
    BY <1>1, <1>4, <2>1, <2>2 DEF Answers, p
<1>5. CASE listener' = [listener EXCEPT ![h][p] = half] /\ failed'
  <2> HIDE DEF half, p
  <2>1. /\ listener' \in [Hosts -> [Planes -> ListenerStates]]
        /\ \A k \in Hosts : \A q \in Planes :
              listener'[k][q] = IF k = h /\ q = p THEN half ELSE listener[k][q]
    BY <1>2, <1>5, ListenerFacts DEF TypeInv
  <2> QED
    BY <1>1, <1>5, <2>1 DEF p
<1> QED
  BY <1>3, <1>4, <1>5

LEMMA RemoveEffect ==
    ASSUME TypeInv, NEW h \in Hosts, RemoveListener(h)
    PROVE  /\ pc \in RemovePcs /\ h \in group
           /\ listener' \in [Hosts -> [Planes -> ListenerStates]]
           /\ \A k \in Hosts, q \in Planes :
                 listener'[k][q] \in {listener[k][q], "absent"}
           /\ failed' \/ (failed' = failed /\ listener'[h][RemoveStages[pc]] = "absent")
<1>1. pc \in RemovePcs /\ RemoveStages[pc] \in Planes /\ h \in group
  BY RemoveFacts DEF RemoveListener
<1> DEFINE p == RemoveStages[pc]
<1>2. p \in Planes /\ "absent" \in ListenerStates
  BY <1>1 DEF ListenerStates
<1>3. \/ listener' = [listener EXCEPT ![h][p] = "absent"] /\ failed' = failed
      \/ listener' = listener /\ failed'
  BY DEF RemoveListener
<1>4. CASE listener' = [listener EXCEPT ![h][p] = "absent"] /\ failed' = failed
  <2> HIDE DEF p
  <2>1. /\ listener' \in [Hosts -> [Planes -> ListenerStates]]
        /\ \A k \in Hosts : \A q \in Planes :
              listener'[k][q] = IF k = h /\ q = p THEN "absent" ELSE listener[k][q]
    BY <1>2, <1>4, ListenerFacts DEF TypeInv
  <2> QED
    BY <1>1, <1>2, <1>4, <2>1 DEF p
<1> QED
  BY <1>1, <1>3, <1>4 DEF TypeInv

\* A check that finds no error has found every connection of its host open, or
\* its container has died; a single etcd host, which is not checked, reaches
\* itself.
LEMMA CheckEffect ==
    ASSUME TypeInv, NEW h \in Hosts, CheckPorts(h)
    PROVE  /\ pc \in CheckPcs /\ h \in group
           /\ \/ failed'
              \/ /\ failed' = failed
                 /\ \/ <<pc, h>> \in unseen'
                    \/ \A t \in On(CheckStages[pc][2], conf) :
                          <<h, t>> \notin blocked
           /\ unseen \subseteq unseen' /\ unseen' \subseteq unseen \cup {<<pc, h>>}
           /\ \/ alarm' = alarm
              \/ \E t \in On(CheckStages[pc][2], conf) : ~Answers(t, CheckStages[pc][2])
<1>1. pc \in CheckPcs /\ CheckStages[pc][2] \in Planes /\ h \in group
  BY CheckFacts DEF CheckPorts
<1> DEFINE port == CheckStages[pc][2]
           bad  == \E t \in On(port, conf) : ~Reaches(h, t, port)
           skip == pc = "etcd_etcd" /\ On("etcd", conf) = {h}
<1>2. \/ /\ failed' = (failed \/ (bad /\ ~skip))
         /\ alarm' = (alarm \/ (Deaf(h, port) /\ ~skip))
         /\ unseen' = unseen
      \/ failed' /\ alarm' = alarm /\ unseen' = unseen
      \/ /\ unseen' = unseen \cup {<<pc, h>>}
         /\ failed' = failed /\ alarm' = alarm
  BY Zenon DEF CheckPorts
<1>3. CASE failed' /\ alarm' = alarm /\ unseen' = unseen
  BY <1>1, <1>3
<1>5. CASE /\ unseen' = unseen \cup {<<pc, h>>}
           /\ failed' = failed /\ alarm' = alarm
  BY <1>1, <1>5
<1>4. CASE /\ failed' = (failed \/ (bad /\ ~skip))
           /\ alarm' = (alarm \/ (Deaf(h, port) /\ ~skip))
           /\ unseen' = unseen
  <2>1. Deaf(h, port) => \E t \in On(port, conf) : ~Answers(t, port)
    BY DEF Deaf
  <2>2. ~bad => \A t \in On(port, conf) : <<h, t>> \notin blocked
    BY DEF Reaches
  <2>3. skip => \A t \in On(port, conf) : <<h, t>> \notin blocked
    <3> SUFFICES ASSUME skip, NEW t \in On(port, conf) PROVE  <<h, t>> \notin blocked
      OBVIOUS
    <3>1. port = "etcd"
      BY CheckFacts
    <3>2. t = h
      BY <3>1
    <3> QED
      BY <3>2 DEF TypeInv, Pairs
  <2>4. alarm' = alarm \/ Deaf(h, port)
    BY <1>4 DEF TypeInv
  <2>5. failed' \/ (failed' = failed /\ (~bad \/ skip))
    BY <1>4 DEF TypeInv
  <2> HIDE DEF bad, skip
  <2> QED
    BY <1>1, <1>4, <2>1, <2>2, <2>3, <2>4, <2>5
<1> QED
  BY <1>2, <1>3, <1>4, <1>5

-----------------------------------------------------------------------------
(* One lemma per part of the invariant, one step per action.                *)

\* Types, and the stages in which checked is set.
LEMMA TypeStep == TypeInv /\ [Next]_vars => TypeInv'
<1> SUFFICES ASSUME TypeInv, [Next]_vars PROVE  TypeInv'
  OBVIOUS
<1> USE DEF TypeInv, netVars, Enter, EndRun
<1>1. ASSUME NEW c \in Configs, StartUp(c) PROVE  TypeInv'
  BY <1>1, PortAssumption DEF StartUp, NoConfig, Planes, Pcs, DeployPcs,
     CheckPcs, RemovePcs, SavePcs
<1>2. CASE CheckClusterPorts
  <2>1. GroupOf("reconcile") \subseteq Hosts /\ GroupOf("deploy_etcd") \subseteq Hosts
    BY GroupFacts
  <2>2. /\ pc' \in {"reconcile", "deploy_etcd"} /\ group' \subseteq Hosts
        /\ pc' # "reconcile" => checked'
        /\ checked' \in BOOLEAN
    BY <1>2, <2>1 DEF CheckClusterPorts
  <2> QED
    BY <1>2, <2>2 DEF CheckClusterPorts, Pcs, DeployPcs, CheckPcs, RemovePcs,
       SavePcs
<1>3. ASSUME NEW h \in Hosts, DeployListener(h) PROVE  TypeInv'
  BY <1>3, DeployEffect DEF DeployListener
<1>4. ASSUME NEW h \in Hosts, CheckPorts(h) PROVE  TypeInv'
  BY <1>4 DEF CheckPorts
<1>5. CASE CheckKubeAPIPort
  BY <1>5, GroupFacts DEF CheckKubeAPIPort, Pcs, DeployPcs, CheckPcs,
     RemovePcs, SavePcs
<1>6. ASSUME NEW h \in Hosts, RemoveListener(h) PROVE  TypeInv'
  BY <1>6, RemoveEffect DEF RemoveListener
<1>7. CASE Wait
  BY <1>7, GroupFacts, AfterFacts DEF Wait, Pcs, DeployPcs, CheckPcs,
     RemovePcs, SavePcs
<1>8. CASE Reconcile
  <2>1. serves' \in [Hosts -> SUBSET Planes]
    BY <1>8 DEF Reconcile
  <2>2. GroupOf("deploy_control_plane") \subseteq Hosts
    BY GroupFacts
  <2> QED
    BY <1>8, <2>1, <2>2 DEF Reconcile, Pcs, DeployPcs, CheckPcs, RemovePcs,
       SavePcs
<1>9. CASE DeployControlPlane
  BY <1>9, GroupFacts DEF DeployControlPlane, Pcs, DeployPcs, CheckPcs,
     RemovePcs, SavePcs
<1>10. CASE DeployWorkerPlane
  BY <1>10 DEF DeployWorkerPlane, Planes, Pcs, DeployPcs, CheckPcs, RemovePcs,
     SavePcs
<1>11. CASE Abort
  BY <1>11 DEF Abort, Pcs, DeployPcs, CheckPcs, RemovePcs, SavePcs
<1>12. CASE OpenFirewall
  BY <1>12 DEF OpenFirewall
<1>13. CASE UNCHANGED vars
  BY <1>13 DEF vars, netVars
<1> QED
  BY <1>1, <1>2, <1>3, <1>4, <1>5, <1>6, <1>7, <1>8, <1>9, <1>10, <1>11,
     <1>12, <1>13 DEF Next, RkeStep

\* Connections found open stay open: the operator touches the firewall only
\* between runs.
LEMMA OpenStep == TypeInv /\ OpenInv /\ [Next]_vars => OpenInv'
<1> SUFFICES ASSUME TypeInv, OpenInv, [Next]_vars PROVE  OpenInv'
  OBVIOUS
<1>1. ASSUME NEW c \in Configs, StartUp(c) PROVE  OpenInv'
  BY <1>1 DEF StartUp, OpenInv, Open, OpenFrom, PastChecks, On, netVars,
     Enter, EndRun, TypeInv, Pcs, DeployPcs, CheckPcs, RemovePcs, SavePcs
<1>2. CASE CheckClusterPorts
  BY <1>2 DEF CheckClusterPorts, OpenInv, Open, OpenFrom, PastChecks, On,
     netVars, Enter, EndRun, TypeInv, Pcs, DeployPcs, CheckPcs, RemovePcs,
     SavePcs
<1>3. ASSUME NEW h \in Hosts, DeployListener(h) PROVE  OpenInv'
  BY <1>3, DeployEffect DEF DeployListener, OpenInv, Open, OpenFrom,
     PastChecks, On, netVars, Pcs, DeployPcs, CheckPcs, RemovePcs, SavePcs
<1>4. ASSUME NEW h \in Hosts, CheckPorts(h) PROVE  OpenInv'
  <2>1. /\ pc \in CheckPcs /\ pc' = pc /\ h \in group /\ group' = group \ {h}
        /\ UNCHANGED <<blocked, conf, checked>>
    BY <1>4, CheckEffect DEF CheckPorts, netVars
  <2>2. ~failed' => OpenFrom(On(CheckStages[pc][1], conf) \ group, pc)'
    BY <1>4, <2>1, CheckEffect DEF OpenInv, OpenFrom, On
  <2>3. \A s \in CheckPcs : Open(s) => Open(s)'
    BY <1>4, <2>1, CheckEffect DEF Open, OpenFrom, On
  <2> QED
    BY <2>1, <2>2, <2>3 DEF OpenInv, PastChecks, CheckPcs, RemovePcs
<1>5. CASE CheckKubeAPIPort
  BY <1>5 DEF CheckKubeAPIPort, OpenInv, Open, OpenFrom, PastChecks, On,
     netVars, Enter, EndRun, TypeInv, Pcs, DeployPcs, CheckPcs, RemovePcs,
     SavePcs
<1>6. ASSUME NEW h \in Hosts, RemoveListener(h) PROVE  OpenInv'
  BY <1>6, RemoveEffect DEF RemoveListener, OpenInv, Open, OpenFrom,
     PastChecks, On, netVars, Pcs, DeployPcs, CheckPcs, RemovePcs, SavePcs
<1>7. CASE Wait
  <2>0. CASE failed
    BY <1>7, <2>0, AfterFacts DEF Wait, EndRun, netVars, TypeInv, OpenInv,
       Open,
       OpenFrom, PastChecks, On, Pcs, DeployPcs, CheckPcs, RemovePcs, SavePcs
  <2>1. CASE ~failed
    <3>0. /\ pc \in DOMAIN After /\ group = {} /\ pc' = After[pc]
          /\ group' = GroupOf(After[pc])
          /\ UNCHANGED <<netVars, saved, conf, cur, checked, alarm, unseen, cut,
                         failed>>
      BY <1>7, <2>1 DEF Wait, EndRun, Enter
    <3>1. CASE pc = "deploy_etcd"
      BY <2>1, <3>0, <3>1, AfterFacts, CheckFacts, GroupFacts DEF netVars,
         OpenInv, Open, OpenFrom, PastChecks, On, Pcs, DeployPcs, CheckPcs,
         RemovePcs, SavePcs
    <3>2. CASE pc = "deploy_control"
      BY <2>1, <3>0, <3>2, AfterFacts, CheckFacts, GroupFacts DEF netVars,
         OpenInv, Open, OpenFrom, PastChecks, On, Pcs, DeployPcs, CheckPcs,
         RemovePcs, SavePcs
    <3>3. CASE pc = "deploy_worker"
      BY <2>1, <3>0, <3>3, AfterFacts, CheckFacts, GroupFacts DEF netVars,
         OpenInv, Open, OpenFrom, PastChecks, On, Pcs, DeployPcs, CheckPcs,
         RemovePcs, SavePcs
    <3>4. CASE pc = "etcd_etcd"
      BY <2>1, <3>0, <3>4, AfterFacts, CheckFacts, GroupFacts DEF netVars,
         OpenInv, Open, OpenFrom, PastChecks, On, Pcs, DeployPcs, CheckPcs,
         RemovePcs, SavePcs
    <3>5. CASE pc = "control_etcd"
      BY <2>1, <3>0, <3>5, AfterFacts, CheckFacts, GroupFacts DEF netVars,
         OpenInv, Open, OpenFrom, PastChecks, On, Pcs, DeployPcs, CheckPcs,
         RemovePcs, SavePcs
    <3>6. CASE pc = "worker_etcd"
      BY <2>1, <3>0, <3>6, AfterFacts, CheckFacts, GroupFacts DEF netVars,
         OpenInv, Open, OpenFrom, PastChecks, On, Pcs, DeployPcs, CheckPcs,
         RemovePcs, SavePcs
    <3>7. CASE pc = "control_worker"
      BY <2>1, <3>0, <3>7, AfterFacts, CheckFacts, GroupFacts DEF netVars,
         OpenInv, Open, OpenFrom, PastChecks, On, Pcs, DeployPcs, CheckPcs,
         RemovePcs, SavePcs
    <3>8. CASE pc = "worker_control"
      BY <2>1, <3>0, <3>8, AfterFacts, CheckFacts, GroupFacts DEF netVars,
         OpenInv, Open, OpenFrom, PastChecks, On, Pcs, DeployPcs, CheckPcs,
         RemovePcs, SavePcs
    <3>9. CASE pc = "remove_etcd"
      BY <2>1, <3>0, <3>9, AfterFacts, CheckFacts, GroupFacts DEF netVars,
         OpenInv, Open, OpenFrom, PastChecks, On, Pcs, DeployPcs, CheckPcs,
         RemovePcs, SavePcs
    <3>10. CASE pc = "remove_control"
      BY <2>1, <3>0, <3>10, AfterFacts, CheckFacts, GroupFacts DEF netVars,
         OpenInv, Open, OpenFrom, PastChecks, On, Pcs, DeployPcs, CheckPcs,
         RemovePcs, SavePcs
    <3>11. CASE pc = "remove_worker"
      BY <2>1, <3>0, <3>11, AfterFacts, CheckFacts, GroupFacts DEF netVars,
         OpenInv, Open, OpenFrom, PastChecks, On, Pcs, DeployPcs, CheckPcs,
         RemovePcs, SavePcs
    <3> QED
      BY <3>0, AfterFacts, <3>1, <3>2, <3>3, <3>4, <3>5, <3>6, <3>7, <3>8,
         <3>9, <3>10, <3>11 DEF DeployPcs, CheckPcs, RemovePcs
  <2> QED
    BY <2>0, <2>1
<1>8. CASE Reconcile
  BY <1>8 DEF Reconcile, OpenInv, Open, OpenFrom, PastChecks, On, netVars,
     Enter, EndRun, TypeInv, Pcs, DeployPcs, CheckPcs, RemovePcs, SavePcs
<1>9. CASE DeployControlPlane
  BY <1>9 DEF DeployControlPlane, OpenInv, Open, OpenFrom, PastChecks, On,
     netVars, Enter, EndRun, TypeInv, Pcs, DeployPcs, CheckPcs, RemovePcs,
     SavePcs
<1>10. CASE DeployWorkerPlane
  BY <1>10 DEF DeployWorkerPlane, OpenInv, Open, OpenFrom, PastChecks, On,
     netVars, Enter, EndRun, TypeInv, Pcs, DeployPcs, CheckPcs, RemovePcs,
     SavePcs
<1>11. CASE Abort
  BY <1>11 DEF Abort, OpenInv, Open, OpenFrom, PastChecks, On, netVars, Enter,
     EndRun, TypeInv, Pcs, DeployPcs, CheckPcs, RemovePcs, SavePcs
<1>12. CASE OpenFirewall
  BY <1>12 DEF OpenFirewall, OpenInv, Open, OpenFrom, PastChecks, On, netVars,
     Enter, EndRun, TypeInv, Pcs, DeployPcs, CheckPcs, RemovePcs, SavePcs
<1>13. CASE UNCHANGED vars
  BY <1>13 DEF vars, netVars, OpenInv, Open, OpenFrom, PastChecks, On,
     netVars, Enter, EndRun, TypeInv, Pcs, DeployPcs, CheckPcs, RemovePcs,
     SavePcs
<1> QED
  BY <1>1, <1>2, <1>3, <1>4, <1>5, <1>6, <1>7, <1>8, <1>9, <1>10, <1>11,
     <1>12, <1>13 DEF Next, RkeStep

\* Listeners once removed are gone until the next run's checks.
LEMMA ClearStep == TypeInv /\ ClearInv /\ [Next]_vars => ClearInv'
<1> SUFFICES ASSUME TypeInv, ClearInv, [Next]_vars PROVE  ClearInv'
  OBVIOUS
<1>1. ASSUME NEW c \in Configs, StartUp(c) PROVE  ClearInv'
  BY <1>1 DEF StartUp, ClearInv, Clear, ClearOn, PastRemoval, On, netVars,
     Enter, EndRun, TypeInv, Pcs, DeployPcs, CheckPcs, RemovePcs, SavePcs
<1>2. CASE CheckClusterPorts
  BY <1>2 DEF CheckClusterPorts, ClearInv, Clear, ClearOn, PastRemoval, On,
     netVars, Enter, EndRun, TypeInv, Pcs, DeployPcs, CheckPcs, RemovePcs,
     SavePcs
<1>3. ASSUME NEW h \in Hosts, DeployListener(h) PROVE  ClearInv'
  BY <1>3, DeployEffect DEF DeployListener, ClearInv, Clear, ClearOn,
     PastRemoval, On, netVars, Pcs, DeployPcs, CheckPcs, RemovePcs, SavePcs
<1>4. ASSUME NEW h \in Hosts, CheckPorts(h) PROVE  ClearInv'
  BY <1>4, CheckEffect DEF CheckPorts, ClearInv, Clear, ClearOn, PastRemoval,
     On, netVars, Pcs, DeployPcs, CheckPcs, RemovePcs, SavePcs
<1>5. CASE CheckKubeAPIPort
  <2>1. pc' = "idle" \/ (pc' = "remove_etcd" /\ group' = On("etcd", conf))
    BY <1>5, GroupFacts, RemoveFacts DEF CheckKubeAPIPort, Enter, EndRun,
       RemovePcs
  <2>2. conf' = conf
    BY <1>5 DEF CheckKubeAPIPort
  <2> QED
    BY <2>1, <2>2, RemoveFacts DEF ClearInv, ClearOn, PastRemoval, On,
       RemovePcs
<1>6. ASSUME NEW h \in Hosts, RemoveListener(h) PROVE  ClearInv'
  <2>1. /\ pc \in RemovePcs /\ pc' = pc /\ h \in group /\ group' = group \ {h}
        /\ UNCHANGED <<conf, checked>>
    BY <1>6, RemoveEffect DEF RemoveListener
  <2>2. \A k \in Hosts, q \in Planes : listener[k][q] = "absent" => listener'[k][q] = "absent"
    BY <1>6, RemoveEffect
  <2>3. ~failed' => ClearOn(On(RemoveStages[pc], conf) \ group, RemoveStages[pc])'
    BY <1>6, <2>1, <2>2, RemoveEffect, RemoveFacts DEF ClearInv, ClearOn, On
  <2> QED
    BY <2>1, <2>2, <2>3 DEF ClearInv, ClearOn, Clear, PastRemoval, On, Planes,
       Pcs, DeployPcs, CheckPcs, RemovePcs, SavePcs
<1>7. CASE Wait
  <2>0. CASE failed
    BY <1>7, <2>0, AfterFacts DEF Wait, EndRun, netVars, TypeInv, ClearInv,
       Clear, ClearOn, PastRemoval, On, Pcs, DeployPcs, CheckPcs, RemovePcs,
       SavePcs
  <2>1. CASE ~failed
    <3>0. /\ pc \in DOMAIN After /\ group = {} /\ pc' = After[pc]
          /\ group' = GroupOf(After[pc])
          /\ UNCHANGED <<netVars, saved, conf, cur, checked, alarm, unseen, cut,
                         failed>>
      BY <1>7, <2>1 DEF Wait, EndRun, Enter
    <3>1. CASE pc = "deploy_etcd"
      BY <2>1, <3>0, <3>1, AfterFacts, RemoveFacts, GroupFacts DEF netVars,
         ClearInv, Clear, ClearOn, PastRemoval, On, Pcs, DeployPcs, CheckPcs,
         RemovePcs, SavePcs
    <3>2. CASE pc = "deploy_control"
      BY <2>1, <3>0, <3>2, AfterFacts, RemoveFacts, GroupFacts DEF netVars,
         ClearInv, Clear, ClearOn, PastRemoval, On, Pcs, DeployPcs, CheckPcs,
         RemovePcs, SavePcs
    <3>3. CASE pc = "deploy_worker"
      BY <2>1, <3>0, <3>3, AfterFacts, RemoveFacts, GroupFacts DEF netVars,
         ClearInv, Clear, ClearOn, PastRemoval, On, Pcs, DeployPcs, CheckPcs,
         RemovePcs, SavePcs
    <3>4. CASE pc = "etcd_etcd"
      BY <2>1, <3>0, <3>4, AfterFacts, RemoveFacts, GroupFacts DEF netVars,
         ClearInv, Clear, ClearOn, PastRemoval, On, Pcs, DeployPcs, CheckPcs,
         RemovePcs, SavePcs
    <3>5. CASE pc = "control_etcd"
      BY <2>1, <3>0, <3>5, AfterFacts, RemoveFacts, GroupFacts DEF netVars,
         ClearInv, Clear, ClearOn, PastRemoval, On, Pcs, DeployPcs, CheckPcs,
         RemovePcs, SavePcs
    <3>6. CASE pc = "worker_etcd"
      BY <2>1, <3>0, <3>6, AfterFacts, RemoveFacts, GroupFacts DEF netVars,
         ClearInv, Clear, ClearOn, PastRemoval, On, Pcs, DeployPcs, CheckPcs,
         RemovePcs, SavePcs
    <3>7. CASE pc = "control_worker"
      BY <2>1, <3>0, <3>7, AfterFacts, RemoveFacts, GroupFacts DEF netVars,
         ClearInv, Clear, ClearOn, PastRemoval, On, Pcs, DeployPcs, CheckPcs,
         RemovePcs, SavePcs
    <3>8. CASE pc = "worker_control"
      BY <2>1, <3>0, <3>8, AfterFacts, RemoveFacts, GroupFacts DEF netVars,
         ClearInv, Clear, ClearOn, PastRemoval, On, Pcs, DeployPcs, CheckPcs,
         RemovePcs, SavePcs
    <3>9. CASE pc = "remove_etcd"
      BY <2>1, <3>0, <3>9, AfterFacts, RemoveFacts, GroupFacts DEF netVars,
         ClearInv, Clear, ClearOn, PastRemoval, On, Pcs, DeployPcs, CheckPcs,
         RemovePcs, SavePcs
    <3>10. CASE pc = "remove_control"
      BY <2>1, <3>0, <3>10, AfterFacts, RemoveFacts, GroupFacts DEF netVars,
         ClearInv, Clear, ClearOn, PastRemoval, On, Pcs, DeployPcs, CheckPcs,
         RemovePcs, SavePcs
    <3>11. CASE pc = "remove_worker"
      BY <2>1, <3>0, <3>11, AfterFacts, RemoveFacts, GroupFacts DEF netVars,
         ClearInv, Clear, ClearOn, PastRemoval, On, Pcs, DeployPcs, CheckPcs,
         RemovePcs, SavePcs
    <3> QED
      BY <3>0, AfterFacts, <3>1, <3>2, <3>3, <3>4, <3>5, <3>6, <3>7, <3>8,
         <3>9, <3>10, <3>11 DEF DeployPcs, CheckPcs, RemovePcs
  <2> QED
    BY <2>0, <2>1
<1>8. CASE Reconcile
  BY <1>8 DEF Reconcile, ClearInv, Clear, ClearOn, PastRemoval, On, netVars,
     Enter, EndRun, TypeInv, Pcs, DeployPcs, CheckPcs, RemovePcs, SavePcs
<1>9. CASE DeployControlPlane
  BY <1>9 DEF DeployControlPlane, ClearInv, Clear, ClearOn, PastRemoval, On,
     netVars, Enter, EndRun, TypeInv, Pcs, DeployPcs, CheckPcs, RemovePcs,
     SavePcs
<1>10. CASE DeployWorkerPlane
  BY <1>10 DEF DeployWorkerPlane, ClearInv, Clear, ClearOn, PastRemoval, On,
     netVars, Enter, EndRun, TypeInv, Pcs, DeployPcs, CheckPcs, RemovePcs,
     SavePcs
<1>11. CASE Abort
  BY <1>11 DEF Abort, ClearInv, Clear, ClearOn, PastRemoval, On, netVars,
     Enter, EndRun, TypeInv, Pcs, DeployPcs, CheckPcs, RemovePcs, SavePcs
<1>12. CASE OpenFirewall
  BY <1>12 DEF OpenFirewall, ClearInv, Clear, ClearOn, PastRemoval, On,
     netVars, Enter, EndRun, TypeInv, Pcs, DeployPcs, CheckPcs, RemovePcs,
     SavePcs
<1>13. CASE UNCHANGED vars
  BY <1>13 DEF vars, netVars, ClearInv, Clear, ClearOn, PastRemoval, On,
     netVars, Enter, EndRun, TypeInv, Pcs, DeployPcs, CheckPcs, RemovePcs,
     SavePcs
<1> QED
  BY <1>1, <1>2, <1>3, <1>4, <1>5, <1>6, <1>7, <1>8, <1>9, <1>10, <1>11,
     <1>12, <1>13 DEF Next, RkeStep

\* The services of the saved state stay up, except while a run that reconciles
\* and deploys is between the two.
LEMMA ServiceStep == TypeInv /\ ServiceInv /\ [Next]_vars => ServiceInv'
<1> SUFFICES ASSUME TypeInv, ServiceInv, [Next]_vars PROVE  ServiceInv'
  OBVIOUS
<1>1. ASSUME NEW c \in Configs, StartUp(c) PROVE  ServiceInv'
  BY <1>1 DEF StartUp, ServiceInv, netVars, Enter, EndRun, TypeInv, Pcs,
     DeployPcs, CheckPcs, RemovePcs, SavePcs
<1>2. CASE CheckClusterPorts
  BY <1>2 DEF CheckClusterPorts, ServiceInv, netVars, Enter, EndRun, TypeInv,
     Pcs, DeployPcs, CheckPcs, RemovePcs, SavePcs
<1>3. ASSUME NEW h \in Hosts, DeployListener(h) PROVE  ServiceInv'
  BY <1>3, DeployEffect DEF DeployListener, ServiceInv, netVars, Pcs,
     DeployPcs, CheckPcs, RemovePcs, SavePcs
<1>4. ASSUME NEW h \in Hosts, CheckPorts(h) PROVE  ServiceInv'
  BY <1>4, CheckEffect DEF CheckPorts, ServiceInv, netVars, Pcs, DeployPcs,
     CheckPcs, RemovePcs, SavePcs
<1>5. CASE CheckKubeAPIPort
  BY <1>5 DEF CheckKubeAPIPort, ServiceInv, netVars, Enter, EndRun, TypeInv,
     Pcs, DeployPcs, CheckPcs, RemovePcs, SavePcs
<1>6. ASSUME NEW h \in Hosts, RemoveListener(h) PROVE  ServiceInv'
  BY <1>6, RemoveEffect DEF RemoveListener, ServiceInv, netVars, Pcs,
     DeployPcs, CheckPcs, RemovePcs, SavePcs
<1>7. CASE Wait
  <2>0. CASE failed
    BY <1>7, <2>0, AfterFacts DEF Wait, EndRun, netVars, TypeInv, ServiceInv,
       Pcs, DeployPcs, CheckPcs, RemovePcs, SavePcs
  <2>1. CASE ~failed
    <3>0. /\ pc \in DOMAIN After /\ group = {} /\ pc' = After[pc]
          /\ group' = GroupOf(After[pc])
          /\ UNCHANGED <<netVars, saved, conf, cur, checked, alarm, unseen, cut,
                         failed>>
      BY <1>7, <2>1 DEF Wait, EndRun, Enter
    <3>1. CASE pc = "deploy_etcd"
      BY <2>1, <3>0, <3>1, AfterFacts DEF netVars, ServiceInv, Pcs, DeployPcs,
         CheckPcs, RemovePcs, SavePcs
    <3>2. CASE pc = "deploy_control"
      BY <2>1, <3>0, <3>2, AfterFacts DEF netVars, ServiceInv, Pcs, DeployPcs,
         CheckPcs, RemovePcs, SavePcs
    <3>3. CASE pc = "deploy_worker"
      BY <2>1, <3>0, <3>3, AfterFacts DEF netVars, ServiceInv, Pcs, DeployPcs,
         CheckPcs, RemovePcs, SavePcs
    <3>4. CASE pc = "etcd_etcd"
      BY <2>1, <3>0, <3>4, AfterFacts DEF netVars, ServiceInv, Pcs, DeployPcs,
         CheckPcs, RemovePcs, SavePcs
    <3>5. CASE pc = "control_etcd"
      BY <2>1, <3>0, <3>5, AfterFacts DEF netVars, ServiceInv, Pcs, DeployPcs,
         CheckPcs, RemovePcs, SavePcs
    <3>6. CASE pc = "worker_etcd"
      BY <2>1, <3>0, <3>6, AfterFacts DEF netVars, ServiceInv, Pcs, DeployPcs,
         CheckPcs, RemovePcs, SavePcs
    <3>7. CASE pc = "control_worker"
      BY <2>1, <3>0, <3>7, AfterFacts DEF netVars, ServiceInv, Pcs, DeployPcs,
         CheckPcs, RemovePcs, SavePcs
    <3>8. CASE pc = "worker_control"
      BY <2>1, <3>0, <3>8, AfterFacts DEF netVars, ServiceInv, Pcs, DeployPcs,
         CheckPcs, RemovePcs, SavePcs
    <3>9. CASE pc = "remove_etcd"
      BY <2>1, <3>0, <3>9, AfterFacts DEF netVars, ServiceInv, Pcs, DeployPcs,
         CheckPcs, RemovePcs, SavePcs
    <3>10. CASE pc = "remove_control"
      BY <2>1, <3>0, <3>10, AfterFacts DEF netVars, ServiceInv, Pcs,
         DeployPcs, CheckPcs, RemovePcs, SavePcs
    <3>11. CASE pc = "remove_worker"
      BY <2>1, <3>0, <3>11, AfterFacts DEF netVars, ServiceInv, Pcs,
         DeployPcs, CheckPcs, RemovePcs, SavePcs
    <3> QED
      BY <3>0, AfterFacts, <3>1, <3>2, <3>3, <3>4, <3>5, <3>6, <3>7, <3>8,
         <3>9, <3>10, <3>11 DEF DeployPcs, CheckPcs, RemovePcs
  <2> QED
    BY <2>0, <2>1
<1>8. CASE Reconcile
  BY <1>8 DEF Reconcile, ServiceInv, Enter, Pcs, DeployPcs, CheckPcs,
     RemovePcs, SavePcs
<1>9. CASE DeployControlPlane
  BY <1>9 DEF DeployControlPlane, ServiceInv, netVars, Enter, EndRun, TypeInv,
     Pcs, DeployPcs, CheckPcs, RemovePcs, SavePcs
<1>10. CASE DeployWorkerPlane
  <2> DEFINE clash == {h \in HostsOf(conf) : Clash(h, {"worker", "controlplane"})}
  <2>1. /\ pc = "deploy_workers" /\ pc' = "idle" /\ saved' = saved
        /\ serves' = [h \in Hosts |-> IF h \in HostsOf(conf) \ clash
                                   THEN serves[h] \cup {"worker", "controlplane"}
                                   ELSE serves[h]]
        /\ cut' = (cut \/ clash # {})
    BY <1>10 DEF DeployWorkerPlane, EndRun
  <2>2. ASSUME ~cut', NEW h \in Hosts PROVE  saved'[h] \subseteq serves'[h]
    <3>1. clash = {}
      BY <2>1, <2>2
    <3>2. saved[h] = conf[h] /\ conf[h] \ {"worker"} \subseteq serves[h]
      BY <2>1 DEF ServiceInv
    <3>3. CASE conf[h] = {}
      BY <2>1, <3>2, <3>3
    <3>4. CASE conf[h] # {}
      <4>1. h \in HostsOf(conf) \ clash
        BY <3>1, <3>4 DEF HostsOf
      <4>2. serves'[h] = serves[h] \cup {"worker", "controlplane"}
        BY <2>1, <4>1
      <4> QED
        BY <2>1, <3>2, <4>2
    <3> QED
      BY <3>3, <3>4
  <2> QED
    BY <2>1, <2>2 DEF ServiceInv
<1>11. CASE Abort
  BY <1>11 DEF Abort, ServiceInv, netVars, Enter, EndRun, TypeInv, Pcs,
     DeployPcs, CheckPcs, RemovePcs, SavePcs
<1>12. CASE OpenFirewall
  BY <1>12 DEF OpenFirewall, ServiceInv, netVars, Enter, EndRun, TypeInv, Pcs,
     DeployPcs, CheckPcs, RemovePcs, SavePcs
<1>13. CASE UNCHANGED vars
  BY <1>13 DEF vars, netVars, ServiceInv, netVars, Enter, EndRun, TypeInv,
     Pcs, DeployPcs, CheckPcs, RemovePcs, SavePcs
<1> QED
  BY <1>1, <1>2, <1>3, <1>4, <1>5, <1>6, <1>7, <1>8, <1>9, <1>10, <1>11,
     <1>12, <1>13 DEF Next, RkeStep

\* A listener that was deployed, or the service in its place, answers until
\* the listeners are removed.
LEMMA AnswerStep == TypeInv /\ AnswerInv /\ [Next]_vars => AnswerInv'
<1> SUFFICES ASSUME TypeInv, AnswerInv, [Next]_vars PROVE  AnswerInv'
  OBVIOUS
<1>1. ASSUME NEW c \in Configs, StartUp(c) PROVE  AnswerInv'
  BY <1>1 DEF StartUp, AnswerInv, AllAnswer, AnswerOn, NewHosts, Answers,
     ListenPcs, On, netVars, Enter, EndRun, TypeInv, Pcs, DeployPcs, CheckPcs,
     RemovePcs, SavePcs
<1>2. CASE CheckClusterPorts
  <2>1. \/ pc' = "reconcile"
        \/ pc' = "deploy_etcd" /\ group' = NewHosts("etcd")
    BY <1>2, GroupFacts, DeployFacts DEF CheckClusterPorts, Enter, DeployPcs
  <2>2. NewHosts("etcd")' = NewHosts("etcd")
    BY <1>2 DEF CheckClusterPorts, NewHosts, On
  <2> QED
    BY <2>1, <2>2, DeployFacts DEF AnswerInv, AnswerOn, ListenPcs, DeployPcs,
       CheckPcs
<1>3. ASSUME NEW h \in Hosts, DeployListener(h) PROVE  AnswerInv'
  <2>1. /\ pc \in DeployPcs /\ pc' = pc /\ h \in group /\ group' = group \ {h}
        /\ UNCHANGED <<serves, conf, cur>>
    BY <1>3, DeployEffect DEF DeployListener
  <2>2. \A k \in Hosts, q \in Planes : k # h \/ q # DeployStages[pc] =>
           Answers(k, q)' = Answers(k, q)
    BY <1>3, <2>1, DeployEffect DEF Answers
  <2>3. \A p : NewHosts(p)' = NewHosts(p) /\ NewHosts(p) \subseteq Hosts
    BY <2>1 DEF NewHosts, On
  <2>4. ~failed' => \A k \in NewHosts(DeployStages[pc]) \ group' : Answers(k, DeployStages[pc])'
    BY <1>3, <2>1, <2>2, <2>3, DeployEffect, DeployFacts DEF AnswerInv,
       AnswerOn
  <2>5. ~failed' => AnswerOn(NewHosts(DeployStages[pc]) \ group, DeployStages[pc])'
    BY <2>1, <2>3, <2>4 DEF AnswerOn
  <2>6. ASSUME NEW p \in Planes, p # DeployStages[pc], AllAnswer(p) PROVE  AllAnswer(p)'
    BY <2>2, <2>3, <2>6 DEF AllAnswer, AnswerOn
  <2> QED
    BY <2>1, <2>5, <2>6, DeployFacts DEF AnswerInv, ListenPcs, Planes, Pcs,
       DeployPcs, CheckPcs, RemovePcs, SavePcs
<1>4. ASSUME NEW h \in Hosts, CheckPorts(h) PROVE  AnswerInv'
  BY <1>4, CheckEffect DEF CheckPorts, AnswerInv, AllAnswer, AnswerOn,
     NewHosts, Answers, ListenPcs, On, netVars, Pcs, DeployPcs, CheckPcs,
     RemovePcs, SavePcs
<1>5. CASE CheckKubeAPIPort
  BY <1>5 DEF CheckKubeAPIPort, AnswerInv, AllAnswer, AnswerOn, NewHosts,
     Answers, ListenPcs, On, netVars, Enter, EndRun, TypeInv, Pcs, DeployPcs,
     CheckPcs, RemovePcs, SavePcs
<1>6. ASSUME NEW h \in Hosts, RemoveListener(h) PROVE  AnswerInv'
  BY <1>6, RemoveEffect DEF RemoveListener, AnswerInv, AllAnswer, AnswerOn,
     NewHosts, Answers, ListenPcs, On, netVars, Pcs, DeployPcs, CheckPcs,
     RemovePcs, SavePcs
<1>7. CASE Wait
  <2>0. CASE failed
    BY <1>7, <2>0, AfterFacts DEF Wait, EndRun, netVars, TypeInv, AnswerInv,
       AllAnswer, AnswerOn, NewHosts, Answers, ListenPcs, On, Pcs, DeployPcs,
       CheckPcs, RemovePcs, SavePcs
  <2>1. CASE ~failed
    <3>0. /\ pc \in DOMAIN After /\ group = {} /\ pc' = After[pc]
          /\ group' = GroupOf(After[pc])
          /\ UNCHANGED <<netVars, saved, conf, cur, checked, alarm, unseen, cut,
                         failed>>
      BY <1>7, <2>1 DEF Wait, EndRun, Enter
    <3>1. CASE pc = "deploy_etcd"
      BY <2>1, <3>0, <3>1, AfterFacts, DeployFacts, GroupFacts DEF netVars,
         AnswerInv, AllAnswer, AnswerOn, NewHosts, Answers, ListenPcs, On,
         Pcs, DeployPcs, CheckPcs, RemovePcs, SavePcs
    <3>2. CASE pc = "deploy_control"
      BY <2>1, <3>0, <3>2, AfterFacts, DeployFacts, GroupFacts DEF netVars,
         AnswerInv, AllAnswer, AnswerOn, NewHosts, Answers, ListenPcs, On,
         Pcs, DeployPcs, CheckPcs, RemovePcs, SavePcs
    <3>3. CASE pc = "deploy_worker"
      BY <2>1, <3>0, <3>3, AfterFacts, DeployFacts, GroupFacts DEF netVars,
         AnswerInv, AllAnswer, AnswerOn, NewHosts, Answers, ListenPcs, On,
         Pcs, DeployPcs, CheckPcs, RemovePcs, SavePcs
    <3>4. CASE pc = "etcd_etcd"
      BY <2>1, <3>0, <3>4, AfterFacts, DeployFacts, GroupFacts DEF netVars,
         AnswerInv, AllAnswer, AnswerOn, NewHosts, Answers, ListenPcs, On,
         Pcs, DeployPcs, CheckPcs, RemovePcs, SavePcs
    <3>5. CASE pc = "control_etcd"
      BY <2>1, <3>0, <3>5, AfterFacts, DeployFacts, GroupFacts DEF netVars,
         AnswerInv, AllAnswer, AnswerOn, NewHosts, Answers, ListenPcs, On,
         Pcs, DeployPcs, CheckPcs, RemovePcs, SavePcs
    <3>6. CASE pc = "worker_etcd"
      BY <2>1, <3>0, <3>6, AfterFacts, DeployFacts, GroupFacts DEF netVars,
         AnswerInv, AllAnswer, AnswerOn, NewHosts, Answers, ListenPcs, On,
         Pcs, DeployPcs, CheckPcs, RemovePcs, SavePcs
    <3>7. CASE pc = "control_worker"
      BY <2>1, <3>0, <3>7, AfterFacts, DeployFacts, GroupFacts DEF netVars,
         AnswerInv, AllAnswer, AnswerOn, NewHosts, Answers, ListenPcs, On,
         Pcs, DeployPcs, CheckPcs, RemovePcs, SavePcs
    <3>8. CASE pc = "worker_control"
      BY <2>1, <3>0, <3>8, AfterFacts, DeployFacts, GroupFacts DEF netVars,
         AnswerInv, AllAnswer, AnswerOn, NewHosts, Answers, ListenPcs, On,
         Pcs, DeployPcs, CheckPcs, RemovePcs, SavePcs
    <3>9. CASE pc = "remove_etcd"
      BY <2>1, <3>0, <3>9, AfterFacts, DeployFacts, GroupFacts DEF netVars,
         AnswerInv, AllAnswer, AnswerOn, NewHosts, Answers, ListenPcs, On,
         Pcs, DeployPcs, CheckPcs, RemovePcs, SavePcs
    <3>10. CASE pc = "remove_control"
      BY <2>1, <3>0, <3>10, AfterFacts, DeployFacts, GroupFacts DEF netVars,
         AnswerInv, AllAnswer, AnswerOn, NewHosts, Answers, ListenPcs, On,
         Pcs, DeployPcs, CheckPcs, RemovePcs, SavePcs
    <3>11. CASE pc = "remove_worker"
      BY <2>1, <3>0, <3>11, AfterFacts, DeployFacts, GroupFacts DEF netVars,
         AnswerInv, AllAnswer, AnswerOn, NewHosts, Answers, ListenPcs, On,
         Pcs, DeployPcs, CheckPcs, RemovePcs, SavePcs
    <3> QED
      BY <3>0, AfterFacts, <3>1, <3>2, <3>3, <3>4, <3>5, <3>6, <3>7, <3>8,
         <3>9, <3>10, <3>11 DEF DeployPcs, CheckPcs, RemovePcs
  <2> QED
    BY <2>0, <2>1
<1>8. CASE Reconcile
  BY <1>8 DEF Reconcile, AnswerInv, AllAnswer, AnswerOn, NewHosts, Answers,
     ListenPcs, On, netVars, Enter, EndRun, TypeInv, Pcs, DeployPcs, CheckPcs,
     RemovePcs, SavePcs
<1>9. CASE DeployControlPlane
  BY <1>9 DEF DeployControlPlane, AnswerInv, AllAnswer, AnswerOn, NewHosts,
     Answers, ListenPcs, On, netVars, Enter, EndRun, TypeInv, Pcs, DeployPcs,
     CheckPcs, RemovePcs, SavePcs
<1>10. CASE DeployWorkerPlane
  BY <1>10 DEF DeployWorkerPlane, AnswerInv, AllAnswer, AnswerOn, NewHosts,
     Answers, ListenPcs, On, netVars, Enter, EndRun, TypeInv, Pcs, DeployPcs,
     CheckPcs, RemovePcs, SavePcs
<1>11. CASE Abort
  BY <1>11 DEF Abort, AnswerInv, AllAnswer, AnswerOn, NewHosts, Answers,
     ListenPcs, On, netVars, Enter, EndRun, TypeInv, Pcs, DeployPcs, CheckPcs,
     RemovePcs, SavePcs
<1>12. CASE OpenFirewall
  BY <1>12 DEF OpenFirewall, AnswerInv, AllAnswer, AnswerOn, NewHosts,
     Answers, ListenPcs, On, netVars, Enter, EndRun, TypeInv, Pcs, DeployPcs,
     CheckPcs, RemovePcs, SavePcs
<1>13. CASE UNCHANGED vars
  BY <1>13 DEF vars, netVars, AnswerInv, AllAnswer, AnswerOn, NewHosts,
     Answers, ListenPcs, On, netVars, Enter, EndRun, TypeInv, Pcs, DeployPcs,
     CheckPcs, RemovePcs, SavePcs
<1> QED
  BY <1>1, <1>2, <1>3, <1>4, <1>5, <1>6, <1>7, <1>8, <1>9, <1>10, <1>11,
     <1>12, <1>13 DEF Next, RkeStep

\* During the checks every host of a plane answers on the plane's port: the new
\* ones through their listeners, the others through their services.
LEMMA EveryoneAnswers ==
    ASSUME TypeInv, ServiceInv, AnswerInv, ~cut, pc \in ListenPcs,
           NEW p \in Planes, NEW h \in On(p, conf)
    PROVE  Answers(h, p)
<1>1. AllAnswer(p) /\ cur \in {saved, NoConfig} /\ saved[h] \subseteq serves[h]
  BY DEF AnswerInv, ServiceInv, ListenPcs, On, Planes, Pcs, DeployPcs,
     CheckPcs,
         RemovePcs, SavePcs
<1>2. CASE h \in NewHosts(p)
  BY <1>1, <1>2 DEF AllAnswer, AnswerOn
<1>3. CASE h \notin NewHosts(p)
  <2>1. p \in saved[h]
    BY <1>1, <1>3 DEF NewHosts, On
  <2> QED
    BY <1>1, <2>1 DEF Answers
<1> QED
  BY <1>2, <1>3

\* A check fails for want of an answer only after a run was cut off.
LEMMA AlarmStep == TypeInv /\ ServiceInv /\ AnswerInv /\ NoFalseAlarm /\ [Next]_vars => NoFalseAlarm'
<1> SUFFICES ASSUME TypeInv, ServiceInv, AnswerInv, NoFalseAlarm, [Next]_vars PROVE  NoFalseAlarm'
  OBVIOUS
<1>1. ASSUME NEW c \in Configs, StartUp(c) PROVE  NoFalseAlarm'
  BY <1>1 DEF StartUp, NoFalseAlarm, Enter, EndRun, TypeInv
<1>2. CASE CheckClusterPorts
  BY <1>2 DEF CheckClusterPorts, NoFalseAlarm, Enter, EndRun, TypeInv
<1>3. ASSUME NEW h \in Hosts, DeployListener(h) PROVE  NoFalseAlarm'
  BY <1>3 DEF DeployListener, NoFalseAlarm, Enter, EndRun, TypeInv
<1>4. ASSUME NEW h \in Hosts, CheckPorts(h) PROVE  NoFalseAlarm'
  <2>1. pc \in CheckPcs /\ cut' = cut
    BY <1>4, CheckEffect DEF CheckPorts
  <2>2. CASE alarm' = alarm
    BY <2>1, <2>2 DEF NoFalseAlarm
  <2>3. CASE \E t \in On(CheckStages[pc][2], conf) : ~Answers(t, CheckStages[pc][2])
    BY <2>1, <2>3, EveryoneAnswers, CheckFacts DEF NoFalseAlarm, ListenPcs
  <2> QED
    BY <1>4, <2>2, <2>3, CheckEffect
<1>5. CASE CheckKubeAPIPort
  <2>1. pc = "api_port" /\ (cut => cut')
    BY <1>5 DEF CheckKubeAPIPort, EndRun, TypeInv
  <2>2. CASE \E h \in On("controlplane", conf) : ~Answers(h, "controlplane")
    <3>1. cut
      BY <2>1, <2>2, EveryoneAnswers DEF ListenPcs, Planes
    <3> QED
      BY <2>1, <3>1 DEF NoFalseAlarm
  <2>3. CASE ~\E h \in On("controlplane", conf) : ~Answers(h, "controlplane")
    BY <1>5, <2>1, <2>3 DEF CheckKubeAPIPort, NoFalseAlarm
  <2> QED
    BY <2>2, <2>3
<1>6. ASSUME NEW h \in Hosts, RemoveListener(h) PROVE  NoFalseAlarm'
  BY <1>6 DEF RemoveListener, NoFalseAlarm, Enter, EndRun, TypeInv
<1>7. CASE Wait
  <2>1. alarm' = alarm /\ (cut' = cut \/ EndRun("err"))
    BY <1>7 DEF Wait
  <2> QED
    BY <2>1 DEF EndRun, NoFalseAlarm, TypeInv
<1>8. CASE Reconcile
  BY <1>8 DEF Reconcile, NoFalseAlarm, Enter, EndRun, TypeInv
<1>9. CASE DeployControlPlane
  BY <1>9 DEF DeployControlPlane, NoFalseAlarm, Enter, EndRun, TypeInv
<1>10. CASE DeployWorkerPlane
  BY <1>10 DEF DeployWorkerPlane, NoFalseAlarm, Enter, EndRun, TypeInv
<1>11. CASE Abort
  BY <1>11 DEF Abort, NoFalseAlarm, Enter, EndRun, TypeInv
<1>12. CASE OpenFirewall
  BY <1>12 DEF OpenFirewall, NoFalseAlarm, Enter, EndRun, TypeInv
<1>13. CASE UNCHANGED vars
  BY <1>13 DEF vars, netVars, NoFalseAlarm, Enter, EndRun, TypeInv
<1> QED
  BY <1>1, <1>2, <1>3, <1>4, <1>5, <1>6, <1>7, <1>8, <1>9, <1>10, <1>11,
     <1>12, <1>13 DEF Next, RkeStep

-----------------------------------------------------------------------------
LEMMA PortInvInit == Init => PortInv
<1> SUFFICES ASSUME Init PROVE  PortInv
  OBVIOUS
<1>1. /\ NoConfig \in [Hosts -> SUBSET Planes]
      /\ "absent" \in ListenerStates /\ "idle" \in Pcs
  BY DEF NoConfig, Planes, ListenerStates, Pcs
<1>2. pc \notin DeployPcs \cup CheckPcs \cup RemovePcs \cup SavePcs
        \cup {"ports", "api_port", "reconcile"}
  BY DEF Init, DeployPcs, CheckPcs, RemovePcs, SavePcs
<1>3. TypeInv
  BY <1>1, <1>2 DEF Init, TypeInv
<1>4. OpenInv /\ ClearInv
  BY <1>2 DEF OpenInv, ClearInv, PastChecks, PastRemoval, CheckPcs, RemovePcs
<1>5. ServiceInv /\ AnswerInv
  BY <1>2 DEF Init, NoConfig, ServiceInv, AnswerInv, ListenPcs, DeployPcs,
     SavePcs
<1> QED
  BY <1>3, <1>4, <1>5 DEF Init, PortInv, NoFalseAlarm

LEMMA PortInvStep == PortInv /\ [Next]_vars => PortInv'
BY TypeStep, OpenStep, ClearStep, ServiceStep, AnswerStep, AlarmStep DEF
   PortInv

\* The inductive invariant holds in every reachable state.
THEOREM PortInvHolds == Spec => []PortInv
BY PortInvInit, PortInvStep, PTL DEF Spec

\* For any hosts, roles and firewall: a run that went through CheckClusterPorts
\* reaches ReconcileCluster only with every connection its services need open,
\* but for the checks whose container died.
THEOREM PassMeansOpenHolds == Spec => []PassMeansOpen
<1>1. PortInv => PassMeansOpen
  <2> SUFFICES ASSUME PortInv, pc = "reconcile", checked,
                      NEW s \in DOMAIN CheckStages,
                      NEW h \in On(CheckStages[s][1], conf), <<s, h>> \notin unseen,
                      NEW t \in On(CheckStages[s][2], conf)
               PROVE  <<h, t>> \notin blocked
    BY DEF PassMeansOpen
  <2>1. Open(s)
    BY CheckFacts DEF PortInv, OpenInv, PastChecks, CheckPcs
  <2> QED
    BY <2>1 DEF Open, OpenFrom
<1> QED
  BY <1>1, PortInvHolds, PTL

\* ... and with no listener container of a plane left on the hosts of that
\* plane, those of earlier failed runs included.
THEOREM ListenersRemovedHolds == Spec => []ListenersRemoved
<1>1. PortInv => ListenersRemoved
  BY DEF PortInv, ClearInv, PastRemoval, Clear, ClearOn, ListenersRemoved,
     Planes
<1> QED
  BY <1>1, PortInvHolds, PTL

\* A check reports a closed port where no firewall closes it only if some run
\* was cut off between ReconcileCluster and the deployment of the workers.
THEOREM NoFalseAlarmHolds == Spec => []NoFalseAlarm
<1>1. PortInv => NoFalseAlarm
  BY DEF PortInv
<1> QED
  BY <1>1, PortInvHolds, PTL
=============================================================================
