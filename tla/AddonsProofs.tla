---------------------------- MODULE AddonsProofs ----------------------------
(***************************************************************************)
(* Proofs that add-ons are applied as they were created and in their order, *)
(* for every set of configurations, number of retries, runs and faults.     *)
(***************************************************************************)
EXTENDS Addons, TLAPS

Positions == 1..4
JobStates == {"absent", "active", "ran", "failed", "complete"}

TypeInv ==
    /\ account \in BOOLEAN
    /\ cmap \in [AddonNames -> Nat]
    /\ applied \in [AddonNames -> Nat]
    /\ created \in [AddonNames -> Nat]
    /\ conf \in [AddonNames -> Nat]
    /\ job \in [AddonNames -> JobStates]
    /\ pc \in {"idle", "authz", "store", "job", "wait"}
    /\ result \in {"none", "up", "err"}
    /\ todo \subseteq Positions
    /\ abandoned \subseteq AddonNames

\* Where a run is: what it still has to do is wanted, the config map holds the
\* manifest of the add-on whose job is created or waited for, and whatever is
\* behind it is complete or was abandoned by an earlier run.
RunInv ==
    /\ pc # "idle" => conf \in Configs /\ result # "up"
    /\ pc \in {"store", "job", "wait"} =>
          /\ todo \subseteq Wanted
          /\ \A i \in Wanted \ todo :
                AddonOrder[i] \in abandoned \/ job[AddonOrder[i]] = "complete"
    /\ pc \in {"job", "wait"} => todo # {} /\ cmap[Current] = conf[Current]
    /\ pc = "wait" => created[Current] = conf[Current]
    /\ result = "up" =>
          \A i \in Wanted :
             AddonOrder[i] \in abandoned \/ job[AddonOrder[i]] = "complete"

\* A job that no run has walked away from is absent, is being waited for, or
\* is complete; it has applied what it was created with or nothing yet.
JobInv ==
    \A a \in AddonNames \ abandoned :
        /\ job[a] \in {"absent", "complete"} \/ (pc = "wait" /\ a = Current)
        /\ job[a] # "absent" => created[a] # 0
        /\ job[a] \in {"absent", "active", "failed"} => applied[a] = 0
        /\ job[a] \in {"ran", "complete"} => applied[a] = created[a]

\* The network plugin and the DNS are complete before what comes after them.
OrderInv ==
    \A i \in {1, 2} : \A j \in Positions :
        i < j /\ job[AddonOrder[j]] # "absent" =>
            AddonOrder[i] \in abandoned \/ job[AddonOrder[i]] = "complete"

AddonInv == TypeInv /\ RunInv /\ JobInv /\ OrderInv

-----------------------------------------------------------------------------
\* AddonOrder names every add-on once.
LEMMA OrderFacts ==
  /\ DOMAIN AddonOrder = Positions
  /\ Len(AddonOrder) = 4
  /\ \A i \in Positions : AddonOrder[i] \in AddonNames
  /\ \A i, j \in Positions : AddonOrder[i] = AddonOrder[j] => i = j
  /\ \A a \in AddonNames : \E i \in Positions : AddonOrder[i] = a
  /\ AddonOrder[1] = "network" /\ AddonOrder[2] = "dns"
<1>1. DOMAIN AddonOrder = Positions /\ Len(AddonOrder) = 4
  BY DEF AddonOrder, Positions
<1>2. \A i, j \in Positions : AddonOrder[i] = AddonOrder[j] => i = j
  BY DEF AddonOrder, Positions
<1>3. AddonOrder[1] = "network" /\ AddonOrder[2] = "dns"
  BY DEF AddonOrder
<1> QED BY <1>1, <1>2, <1>3 DEF AddonNames

\* The first of a set of positions.
LEMMA FirstFacts ==
  ASSUME NEW S, S \subseteq Positions, S # {}
  PROVE  First(S) \in S /\ \A j \in S : First(S) <= j
<1>1. \A j \in S : j = 1 \/ j = 2 \/ j = 3 \/ j = 4
  BY DEF Positions
<1>2. \E i \in S : \A j \in S : i <= j
  <2>1. CASE 1 \in S
    BY <2>1, <1>1
  <2>2. CASE 1 \notin S /\ 2 \in S
    BY <2>2, <1>1
  <2>3. CASE 1 \notin S /\ 2 \notin S /\ 3 \in S
    BY <2>3, <1>1
  <2>4. CASE 1 \notin S /\ 2 \notin S /\ 3 \notin S
    BY <2>4, <1>1
  <2> QED BY <2>1, <2>2, <2>3, <2>4
<1> QED BY <1>2 DEF First

LEMMA AddonInvInit == Init => AddonInv
<1> SUFFICES ASSUME Init PROVE AddonInv
  OBVIOUS
<1>1. TypeInv
  BY DEF Init, TypeInv, NoAddons, JobStates
<1>2. RunInv /\ JobInv
  BY DEF Init, RunInv, JobInv, NoAddons
<1>3. OrderInv
  BY OrderFacts DEF Init, OrderInv
<1> QED BY <1>1, <1>2, <1>3 DEF AddonInv

LEMMA TypeInvStep == AddonInv /\ [Next]_vars => TypeInv'
<1> SUFFICES ASSUME AddonInv, [Next]_vars PROVE TypeInv'
  OBVIOUS
<1> USE DEF AddonInv, TypeInv, RunInv, JobStates, clusterVars
<1>1. ASSUME NEW c \in Configs, StartUp(c) PROVE TypeInv'
  BY <1>1, AddonsAssumption DEF StartUp
<1>2. CASE ApplyAuthzResources
  BY <1>2, OrderFacts DEF ApplyAuthzResources, Wanted
<1>3. CASE StoreAddonConfigMap
  BY <1>3, FirstFacts, OrderFacts
     DEF StoreAddonConfigMap, UpdateConfigMap, Manifest, Current
<1>4. CASE ApplyK8sSystemJob
  BY <1>4, FirstFacts, OrderFacts DEF ApplyK8sSystemJob, Current, Rest
<1>5. Current \in AddonNames \/ pc # "wait"
  BY FirstFacts, OrderFacts DEF Current
<1>6. CASE EnsureJobCompleted
  BY <1>5, <1>6 DEF EnsureJobCompleted, Fail, Rest
<1>7. CASE AddonsDeployed
  BY <1>7 DEF AddonsDeployed
<1>8. CASE Abort
  BY <1>5, <1>8 DEF Abort, Fail
<1>9. ASSUME NEW a \in AddonNames, JobRuns(a) \/ JobCompletes(a) \/ JobFails(a)
      PROVE  TypeInv'
  BY <1>9 DEF JobRuns, JobCompletes, JobFails
<1>10. CASE UNCHANGED vars
  BY <1>10 DEF vars
<1> QED
  BY <1>1, <1>2, <1>3, <1>4, <1>6, <1>7, <1>8, <1>9, <1>10 DEF Next, RkeStep

LEMMA RunInvStep == AddonInv /\ [Next]_vars => RunInv'
<1> SUFFICES ASSUME AddonInv, [Next]_vars PROVE RunInv'
  OBVIOUS
<1> USE DEF AddonInv, TypeInv, RunInv, clusterVars, Wanted, Current, Rest
<1>1. ASSUME NEW c \in Configs, StartUp(c) PROVE RunInv'
  BY <1>1 DEF StartUp
<1>2. CASE ApplyAuthzResources
  BY <1>2 DEF ApplyAuthzResources
<1>3. CASE StoreAddonConfigMap
  BY <1>3, FirstFacts, OrderFacts DEF StoreAddonConfigMap, UpdateConfigMap,
     Manifest
<1>4. CASE ApplyK8sSystemJob
  BY <1>4, FirstFacts, OrderFacts DEF ApplyK8sSystemJob, JobInv
<1>5. CASE EnsureJobCompleted
  BY <1>5, FirstFacts DEF EnsureJobCompleted, Fail
<1>6. CASE AddonsDeployed
  BY <1>6 DEF AddonsDeployed
<1>7. CASE Abort
  BY <1>7 DEF Abort, Fail
<1>8. ASSUME NEW a \in AddonNames, JobRuns(a) \/ JobCompletes(a) \/ JobFails(a)
      PROVE  RunInv'
  BY <1>8, OrderFacts DEF JobRuns, JobCompletes, JobFails, JobStates
<1>9. CASE UNCHANGED vars
  BY <1>9 DEF vars
<1> QED
  BY <1>1, <1>2, <1>3, <1>4, <1>5, <1>6, <1>7, <1>8, <1>9 DEF Next, RkeStep

LEMMA JobInvStep == AddonInv /\ [Next]_vars => JobInv'
<1> SUFFICES ASSUME AddonInv, [Next]_vars PROVE JobInv'
  OBVIOUS
<1> USE DEF AddonInv, TypeInv, JobInv, clusterVars, Current
<1>1. ASSUME NEW c \in Configs, StartUp(c) PROVE JobInv'
  BY <1>1 DEF StartUp
<1>2. CASE ApplyAuthzResources
  BY <1>2 DEF ApplyAuthzResources
<1>3. CASE StoreAddonConfigMap
  BY <1>3 DEF StoreAddonConfigMap, UpdateConfigMap
<1>4. CASE ApplyK8sSystemJob
  BY <1>4, FirstFacts, OrderFacts DEF ApplyK8sSystemJob, RunInv, Wanted
<1>5. CASE EnsureJobCompleted
  BY <1>5 DEF EnsureJobCompleted, Fail
<1>6. CASE AddonsDeployed
  BY <1>6 DEF AddonsDeployed
<1>7. CASE Abort
  BY <1>7 DEF Abort, Fail
<1>8. ASSUME NEW a \in AddonNames, JobRuns(a) \/ JobCompletes(a) \/ JobFails(a)
      PROVE  JobInv'
  BY <1>8 DEF JobRuns, JobCompletes, JobFails, JobStates, RunInv
<1>9. CASE UNCHANGED vars
  BY <1>9 DEF vars
<1> QED
  BY <1>1, <1>2, <1>3, <1>4, <1>5, <1>6, <1>7, <1>8, <1>9 DEF Next, RkeStep

LEMMA OrderInvStep == AddonInv /\ [Next]_vars => OrderInv'
<1> SUFFICES ASSUME AddonInv, [Next]_vars PROVE OrderInv'
  OBVIOUS
<1> USE DEF AddonInv, TypeInv, OrderInv, clusterVars
<1>1. ASSUME NEW c \in Configs, StartUp(c) PROVE OrderInv'
  BY <1>1 DEF StartUp
<1>2. CASE ApplyAuthzResources
  BY <1>2 DEF ApplyAuthzResources
<1>3. CASE StoreAddonConfigMap
  BY <1>3 DEF StoreAddonConfigMap, UpdateConfigMap
<1>4. CASE ApplyK8sSystemJob
  \* The network plugin and the DNS are wanted in every configuration, so what
  \* lies before the add-on whose job is created is done.
  <2>1. {1, 2} \subseteq Wanted
    BY <1>4, OrderFacts, AddonsAssumption
       DEF ApplyK8sSystemJob, RunInv, Wanted, Positions
  <2>2. First(todo) \in todo /\ First(todo) \in Positions
        /\ \A k \in todo : First(todo) <= k
    BY <1>4, FirstFacts DEF ApplyK8sSystemJob, RunInv
  <2>3. \A i \in {1, 2} : i < First(todo) => i \notin todo
    BY <2>2 DEF Positions
  <2>4. \A i \in {1, 2} : i < First(todo) =>
           AddonOrder[i] \in abandoned \/ job[AddonOrder[i]] = "complete"
    BY <1>4, <2>1, <2>3 DEF ApplyK8sSystemJob, RunInv
  <2>5. \A k \in Positions : job'[AddonOrder[k]] # job[AddonOrder[k]] =>
           k = First(todo) /\ job[AddonOrder[k]] = "absent"
    BY <1>4, <2>2, OrderFacts DEF ApplyK8sSystemJob, Current
  <2>6. \A i \in {1, 2} : i \in Positions
    BY DEF Positions
  <2>7. UNCHANGED abandoned
    BY <1>4 DEF ApplyK8sSystemJob
  <2> QED BY <2>4, <2>5, <2>6, <2>7
<1>5. CASE EnsureJobCompleted
  BY <1>5 DEF EnsureJobCompleted, Fail
<1>6. CASE AddonsDeployed
  BY <1>6 DEF AddonsDeployed
<1>7. CASE Abort
  BY <1>7 DEF Abort, Fail
<1>8. ASSUME NEW a \in AddonNames, JobRuns(a) \/ JobCompletes(a) \/ JobFails(a)
      PROVE  OrderInv'
  BY <1>8, OrderFacts DEF JobRuns, JobCompletes, JobFails, JobStates, Positions
<1>9. CASE UNCHANGED vars
  BY <1>9 DEF vars
<1> QED
  BY <1>1, <1>2, <1>3, <1>4, <1>5, <1>6, <1>7, <1>8, <1>9 DEF Next, RkeStep

LEMMA AddonInvariant == AddonSpec => []AddonInv
<1>1. AddonInv /\ [Next]_vars => AddonInv'
  BY TypeInvStep, RunInvStep, JobInvStep, OrderInvStep DEF AddonInv
<1> QED
  BY <1>1, AddonInvInit, PTL DEF AddonSpec

\* Although the pod of a job reads its config map late and every run overwrites
\* the config map, an add-on that no run has walked away from is applied in
\* the version of the run that created its job, and is applied after a run
\* that ends well.
THEOREM AppliedAsCreatedHolds == AddonSpec => []AppliedAsCreated
<1>1. AddonInv => AppliedAsCreated
  <2> SUFFICES ASSUME AddonInv, NEW a \in AddonNames \ abandoned
               PROVE  /\ applied[a] \in {0, created[a]}
                      /\ (result = "up" /\ conf[a] # 0) => applied[a] = created[a]
    BY DEF AppliedAsCreated
  <2>1. applied[a] \in {0, created[a]}
    BY DEF AddonInv, TypeInv, JobInv, JobStates
  <2>2. (result = "up" /\ conf[a] # 0) => job[a] = "complete"
    BY OrderFacts DEF AddonInv, RunInv, Wanted
  <2> QED BY <2>1, <2>2 DEF AddonInv, JobInv
<1> QED BY <1>1, AddonInvariant, PTL

\* No job of a later add-on exists before the network plugin and the DNS are
\* in the cluster, unless a run has walked away from one of them.
THEOREM InOrderHolds == AddonSpec => []InOrder
<1>1. AddonInv => InOrder
  <2> SUFFICES ASSUME AddonInv, NEW i \in {1, 2}, NEW j \in (i + 1)..Len(AddonOrder),
                      job[AddonOrder[j]] # "absent", AddonOrder[i] \notin abandoned
               PROVE  applied[AddonOrder[i]] # 0
    BY DEF InOrder
  <2>1. i \in Positions /\ j \in Positions /\ i < j
    BY OrderFacts DEF Positions
  <2>2. job[AddonOrder[i]] = "complete" /\ AddonOrder[i] \in AddonNames
    BY <2>1, OrderFacts DEF AddonInv, OrderInv
  <2> QED BY <2>2 DEF AddonInv, JobInv
<1> QED BY <1>1, AddonInvariant, PTL
=============================================================================
