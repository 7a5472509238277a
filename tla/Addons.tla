------------------------------- MODULE Addons -------------------------------
(***************************************************************************)
(* Deployment of the network plugin and the add-ons (cluster/addons.go,    *)
(* cluster/network.go, k8s/job.go): a manifest is stored in a config map,  *)
(* and a Kubernetes job that mounts the config map applies it.             *)
(*                                                                         *)
(* The job is never deleted, and a job that exists already counts as done. *)
(* A manifest, compiled from a template and cluster.yml, is a version      *)
(* number; 0 where cluster.yml asks for none.  The job's controller and    *)
(* its pod are external, and run in the time between two steps of rke and  *)
(* between two runs.  rke is the command: its goroutines end with it.      *)
(***************************************************************************)
EXTENDS Naturals, Sequences

CONSTANTS
    Configs,     \* what cluster.yml may ask for: a version per add-on
    Retries,     \* DefaultRetries
    MaxRuns,     \* bound on the number of runs
    MaxFaults    \* bound on errors and crashes

\* In the order of ClusterUp, DeployK8sAddOns and DeployUserAddOns.
AddonOrder == <<"network", "dns", "ingress", "user">>
AddonNames == {AddonOrder[i] : i \in DOMAIN AddonOrder}

\* Provider "none" and an empty Addons string pass over the last two.
ASSUME AddonsAssumption ==
    /\ Configs \subseteq [AddonNames -> Nat]
    /\ \A c \in Configs : c["network"] # 0 /\ c["dns"] # 0
    /\ Retries \in Nat \ {0}
    /\ MaxRuns \in Nat /\ MaxFaults \in Nat

NoAddons == [a \in AddonNames |-> 0]

VARIABLES
    account,    \* the job's service account and role binding exist
    cmap,       \* cmap[a]: version in the config map
    job,        \* job[a]: "absent", "active", "ran", "failed" or "complete"
    applied,    \* applied[a]: version in the cluster
    pc, conf,
    todo,       \* positions in AddonOrder of the add-ons still to be deployed
    tries, result,
    created,    \* created[a]: version of the run that created the job
    abandoned,  \* add-ons whose run ended before their job was complete
    runs, faults

clusterVars == <<account, cmap, job, applied>>
vars == <<clusterVars, pc, conf, todo, tries, result, created, abandoned, runs,
          faults>>

Init ==
    /\ account = FALSE
    /\ cmap = NoAddons /\ applied = NoAddons /\ created = NoAddons
    /\ job = [a \in AddonNames |-> "absent"]
    /\ pc = "idle" /\ conf = NoAddons /\ todo = {} /\ tries = 0
    /\ result = "none"
    /\ abandoned = {}
    /\ runs = 0 /\ faults = 0

-----------------------------------------------------------------------------
StartUp(c) ==
    /\ pc = "idle" /\ runs < MaxRuns
    /\ runs' = runs + 1
    /\ conf' = c
    /\ pc' = "authz" /\ result' = "none"
    /\ UNCHANGED <<clusterVars, todo, tries, created, abandoned, faults>>

\* The add-on being deployed: the first that is left; and the ones after it.
First(S) == CHOOSE i \in S : \A j \in S : i <= j
Current == AddonOrder[First(todo)]
Rest == todo \ {First(todo)}

\* The run ends with an error; a job it was waiting for goes on without it.
Fail ==
    /\ pc' = "idle" /\ result' = "err"
    /\ abandoned' = IF pc = "wait" THEN abandoned \cup {Current} ELSE abandoned
    /\ todo' = {} /\ tries' = 0

Abort ==
    /\ pc # "idle"
    /\ faults < MaxFaults /\ faults' = faults + 1
    /\ Fail
    /\ UNCHANGED <<clusterVars, conf, created, runs>>

\* What is to be deployed: the network plugin, then the add-ons that are not
\* switched off.
Wanted == {i \in DOMAIN AddonOrder : conf[AddonOrder[i]] # 0}

\* The manifest compiled from an add-on's template and cluster.yml.
Manifest(a) == conf[a]

\* ApplyAuthzResources, with the control plane, before any add-on.  Created or
\* updated, so repeating it is harmless.
ApplyAuthzResources ==
    /\ pc = "authz"
    /\ account' = TRUE
    /\ todo' = Wanted
    /\ pc' = "store"
    /\ UNCHANGED <<cmap, job, applied, conf, tries, result, created, abandoned,
                   runs, faults>>

\* Created or overwritten.
UpdateConfigMap(a, manifest) == cmap' = [cmap EXCEPT ![a] = manifest]

StoreAddonConfigMap ==
    /\ pc = "store" /\ todo # {}
    /\ UpdateConfigMap(Current, Manifest(Current))
    /\ pc' = "job"
    /\ UNCHANGED <<account, job, applied, conf, todo, tries, result, created,
                   abandoned, runs, faults>>

\* Mutant of ApplyK8sSystemJob: returns without waiting for a new job.
ApplyK8sSystemJobNoWait ==
    /\ pc = "job"
    /\ LET a == Current IN
       /\ job' = [job EXCEPT ![a] = IF @ = "absent" THEN "active" ELSE @]
       /\ created' = [created EXCEPT ![a] = IF job[a] = "absent" THEN conf[a]
                                            ELSE @]
    /\ todo' = Rest
    /\ pc' = "store"
    /\ UNCHANGED <<account, cmap, applied, conf, tries, result, abandoned, runs,
                   faults>>

\* ApplyK8sSystemJob: a job that exists, in whatever state, is left alone and
\* counts as success; a new one is waited for.
ApplyK8sSystemJob ==
    /\ pc = "job"
    /\ LET a == Current IN
       \/ /\ job[a] # "absent"
          /\ todo' = Rest
          /\ pc' = "store"
          /\ UNCHANGED <<job, created>>
       \/ /\ job[a] = "absent"
          /\ job' = [job EXCEPT ![a] = "active"]
          /\ created' = [created EXCEPT ![a] = conf[a]]
          /\ pc' = "wait"
          /\ UNCHANGED todo
    /\ UNCHANGED <<account, cmap, applied, conf, tries, result, abandoned, runs,
                   faults>>

\* retryTo: the last attempt's error is returned.
LastAttempt == tries + 1 = Retries

\* retryTo(ensureJobCompleted): done when the job has its Complete condition.
EnsureJobCompleted ==
    /\ pc = "wait"
    /\ \/ /\ job[Current] = "complete"
          /\ todo' = Rest
          /\ pc' = "store" /\ tries' = 0
          /\ UNCHANGED <<result, abandoned>>
       \/ /\ job[Current] # "complete"
          /\ ~LastAttempt
          /\ tries' = tries + 1
          /\ UNCHANGED <<pc, todo, result, abandoned>>
       \/ /\ job[Current] # "complete"
          /\ LastAttempt
          /\ Fail
    /\ UNCHANGED <<clusterVars, conf, created, runs, faults>>

AddonsDeployed ==
    /\ pc = "store" /\ todo = {}
    /\ pc' = "idle" /\ result' = "up"
    /\ UNCHANGED <<clusterVars, conf, todo, tries, created, abandoned, runs,
                   faults>>

-----------------------------------------------------------------------------
(* External: the pod mounts the config map as it is when the pod starts.    *)

JobRuns(a) ==
    /\ job[a] = "active" /\ account
    /\ applied' = [applied EXCEPT ![a] = cmap[a]]
    /\ job' = [job EXCEPT ![a] = "ran"]
    /\ UNCHANGED <<account, cmap, pc, conf, todo, tries, result, created,
                   abandoned, runs, faults>>

JobCompletes(a) ==
    /\ job[a] = "ran"
    /\ job' = [job EXCEPT ![a] = "complete"]
    /\ UNCHANGED <<account, cmap, applied, pc, conf, todo, tries, result, created,
                   abandoned, runs, faults>>

\* kubectl apply fails until the controller gives the job up.
JobFails(a) ==
    /\ job[a] = "active"
    /\ faults < MaxFaults /\ faults' = faults + 1
    /\ job' = [job EXCEPT ![a] = "failed"]
    /\ UNCHANGED <<account, cmap, applied, pc, conf, todo, tries, result, created,
                   abandoned, runs>>

-----------------------------------------------------------------------------
RkeStep ==
    \/ ApplyAuthzResources \/ StoreAddonConfigMap \/ ApplyK8sSystemJob
    \/ EnsureJobCompleted \/ AddonsDeployed

Next ==
    \/ \E c \in Configs : StartUp(c)
    \/ RkeStep \/ Abort
    \/ \E a \in AddonNames : JobRuns(a) \/ JobCompletes(a) \/ JobFails(a)

\* rke goes on; nothing is assumed of the jobs.
AddonSpec == Init /\ [][Next]_vars /\ WF_vars(RkeStep)

-----------------------------------------------------------------------------
\* An add-on no run has walked away from is in the cluster in the version of
\* the run that created its job, and in no other, although the pod reads the
\* config map late and every run overwrites it.
AppliedAsCreated ==
    \A a \in AddonNames \ abandoned :
        /\ applied[a] \in {0, created[a]}
        /\ (result = "up" /\ conf[a] # 0) => applied[a] = created[a]

\* No add-on is started before the network plugin and the DNS, in their order,
\* are in the cluster, unless a run has walked away from one of them.
InOrder ==
    \A i \in {1, 2} : \A j \in (i + 1)..Len(AddonOrder) :
        (job[AddonOrder[j]] # "absent" /\ AddonOrder[i] \notin abandoned)
        => applied[AddonOrder[i]] # 0
=============================================================================
