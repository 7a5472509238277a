------------------------ MODULE DockerContainerProofs ------------------------
(***************************************************************************)
(* Proofs that the safety properties of DockerContainer hold for all sets  *)
(* of images, commands and entrypoints, either restart policy, and any     *)
(* number of faults and daemon restarts; and, of HostCleaner, which runs   *)
(* its cleaner through DockerContainer, that a clean-up which found no     *)
(* left-over cleaner, and whose cleaner nobody killed, has deleted every   *)
(* directory it was asked to delete, for every set of paths.               *)
(***************************************************************************)
EXTENDS HostCleaner, TLAPS

-----------------------------------------------------------------------------
(* Type correctness.                                                        *)

LEMMA TypeInit == Init => TypeOK
<1> SUFFICES ASSUME Init PROVE TypeOK
  OBVIOUS
<1>1. /\ st \in [Names -> Status] /\ cfg \in [Names -> Config]
      /\ images \subseteq Images /\ want \in Config /\ seen \in Status
  BY DEF Init, Names, Status
<1>2. /\ pc \in Steps /\ op \in {"none", "run", "remove"}
      /\ ret \in {"none", "ok", "err"}
  BY DEF Init, Steps
<1>3. faults \in 0..MaxFaults /\ restarts \in 0..MaxRestarts
  BY ConstantsAssumption DEF Init
<1>4. disturbed \in BOOLEAN /\ everRan \in BOOLEAN
  BY DEF Init
<1> QED BY <1>1, <1>2, <1>3, <1>4 DEF TypeOK

LEMMA TypeStep == TypeOK /\ [Next]_vars => TypeOK'
<1> SUFFICES ASSUME TypeOK, [Next]_vars PROVE TypeOK'
  OBVIOUS
<1> USE ConstantsAssumption
    DEF TypeOK, Names, Status, Steps, RunSteps, RollSteps, RemoveSteps, world
<1>1. ASSUME NEW c \in Config, CallRun(c) PROVE TypeOK'
  BY <1>1 DEF CallRun
<1>2. CASE CallRemove
  BY <1>2 DEF CallRemove
<1>3. CASE DoRunContainer \/ UpgradeInspect
  <2>1. CASE RunInspect
    BY <2>1 DEF RunInspect, Goto
  <2>2. CASE RunPull
    BY <2>2 DEF RunPull, UseLocalOrPull, Goto, Config
  <2>3. CASE RunCreate
    BY <2>3 DEF RunCreate, CreateContainer, Goto, Fail
  <2>4. CASE RunStart \/ RunRestart
    BY <2>4 DEF RunStart, RunRestart, StartContainer, Goto
  <2>5. CASE UpgradeInspect
    BY <2>5 DEF UpgradeInspect, Goto
  <2> QED BY <1>3, <2>1, <2>2, <2>3, <2>4, <2>5 DEF DoRunContainer
<1>4. CASE DoRollingUpdateContainer
  <2>1. CASE RollList
    BY <2>1 DEF RollList, Goto
  <2>2. CASE RollPull
    BY <2>2 DEF RollPull, UseLocalOrPull, Goto, Config
  <2>3. CASE RollStop
    BY <2>3 DEF RollStop, StopContainer, Goto
  <2>4. CASE RollWait
    BY <2>4 DEF RollWait, Goto
  <2>5. CASE RollRename
    BY <2>5 DEF RollRename, Goto, Fail
  <2>6. CASE RollCreate
    BY <2>6 DEF RollCreate, CreateContainer, Goto, Fail
  <2>7. CASE RollStart
    BY <2>7 DEF RollStart, StartContainer, Goto
  <2>8. CASE RollRemove
    BY <2>8 DEF RollRemove, RemoveContainer, Goto, Fail
  <2> QED BY <1>4, <2>1, <2>2, <2>3, <2>4, <2>5, <2>6, <2>7, <2>8
          DEF DoRollingUpdateContainer
<1>5. CASE DoRemoveContainer \/ Return
  <2>1. CASE RemoveInspect
    BY <2>1 DEF RemoveInspect, Goto
  <2>2. CASE RemoveStop
    BY <2>2 DEF RemoveStop, StopContainer, Goto
  <2>3. CASE RemoveRemove
    BY <2>3 DEF RemoveRemove, RemoveContainer, Goto, Fail
  <2>4. CASE Return
    BY <2>4 DEF Return
  <2> QED BY <1>5, <2>1, <2>2, <2>3, <2>4 DEF DoRemoveContainer
<1>6. CASE Environment
  <2>1. CASE Abort
    BY <2>1 DEF Abort, Fail
  <2>2. ASSUME NEW n \in Names, ServiceStops(n) PROVE TypeOK'
    BY <2>2 DEF ServiceStops
  <2>3. CASE DaemonRestart
    BY <2>3 DEF DaemonRestart, Started
  <2> QED BY <1>6, <2>1, <2>2, <2>3 DEF Environment
<1>7. CASE UNCHANGED vars
  BY <1>7 DEF vars
<1> QED BY <1>1, <1>2, <1>3, <1>4, <1>5, <1>6, <1>7 DEF Next, CallStep

\* Type correctness of the specification, for all values of its constants.
THEOREM TypeCorrect == Spec => []TypeOK
  BY TypeInit, TypeStep, PTL DEF Spec

-----------------------------------------------------------------------------
(* The inductive invariant: CallInv and ParkedInv, strengthening the three   *)
(* properties; each conjunct is preserved in a lemma of its own.            *)

LEMMA CallInvStep ==
  TypeOK /\ CallInv /\ ParkedInv /\ NeverLost /\ RunHonest /\ [Next]_vars
  => CallInv'
<1> SUFFICES ASSUME TypeOK, CallInv, ParkedInv, NeverLost, RunHonest, [Next]_vars
             PROVE  CallInv'
  OBVIOUS
<1> USE DEF CallInv, NeverLost, TypeOK, Names, Status, Started, RunSteps,
   RollSteps,
            RemoveSteps, world
<1>1. ASSUME NEW c \in Config, CallRun(c) PROVE CallInv'
  BY <1>1 DEF CallRun
<1>2. CASE CallRemove
  BY <1>2 DEF CallRemove
<1>3. CASE RunInspect
  BY <1>3 DEF RunInspect, Goto
<1>4. CASE RunPull \/ RollPull
  BY <1>4 DEF RunPull, RollPull, UseLocalOrPull, Goto
<1>5. CASE RunCreate \/ RollCreate
  BY <1>5 DEF RunCreate, RollCreate, CreateContainer, Goto, Fail
<1>6. CASE RunStart \/ RunRestart \/ RollStart
  BY <1>6 DEF RunStart, RunRestart, RollStart, StartContainer, Goto
<1>7. CASE UpgradeInspect
  BY <1>7 DEF UpgradeInspect, Goto
<1>8. CASE RollList
  BY <1>8 DEF RollList, Goto
<1>9. CASE RollStop \/ RemoveStop
  BY <1>9 DEF RollStop, RemoveStop, StopContainer, Goto
<1>10. CASE RollWait
  BY <1>10 DEF RollWait, Goto
<1>11. CASE RollRename
  BY <1>11 DEF RollRename, Goto, Fail
<1>12. CASE RollRemove \/ RemoveRemove
  BY <1>12 DEF RollRemove, RemoveRemove, RemoveContainer, Goto, Fail
<1>13. CASE RemoveInspect
  BY <1>13 DEF RemoveInspect, Goto
<1>14. CASE Return
  BY <1>14 DEF Return
<1>15. CASE Abort
  BY <1>15 DEF Abort, Fail
<1>16. ASSUME NEW n \in Names, ServiceStops(n) PROVE CallInv'
  BY <1>16 DEF ServiceStops
<1>17. CASE DaemonRestart
  BY <1>17 DEF DaemonRestart
<1>18. CASE UNCHANGED vars
  BY <1>18 DEF vars
<1> QED
  BY <1>1, <1>2, <1>3, <1>4, <1>5, <1>6, <1>7, <1>8, <1>9, <1>10, <1>11, <1>12,
     <1>13, <1>14, <1>15, <1>16, <1>17, <1>18
     DEF Next, CallStep, Environment, DoRunContainer,
         DoRollingUpdateContainer, DoRemoveContainer

LEMMA ParkedInvStep ==
  TypeOK /\ CallInv /\ ParkedInv /\ NeverLost /\ RunHonest /\ [Next]_vars
  => ParkedInv'
<1> SUFFICES ASSUME TypeOK, CallInv, ParkedInv, NeverLost, RunHonest, [Next]_vars
             PROVE  ParkedInv'
  OBVIOUS
<1> USE DEF ParkedInv, CallInv, TypeOK, Names, Status, Started, RunSteps,
   RollSteps,
            RemoveSteps, world
<1>1. ASSUME NEW c \in Config, CallRun(c) PROVE ParkedInv'
  BY <1>1 DEF CallRun
<1>2. CASE CallRemove
  BY <1>2 DEF CallRemove
<1>3. CASE RunInspect
  BY <1>3 DEF RunInspect, Goto
<1>4. CASE RunPull \/ RollPull
  BY <1>4 DEF RunPull, RollPull, UseLocalOrPull, Goto
<1>5. CASE RunCreate \/ RollCreate
  BY <1>5 DEF RunCreate, RollCreate, CreateContainer, Goto, Fail
<1>6. CASE RunStart \/ RunRestart \/ RollStart
  BY <1>6 DEF RunStart, RunRestart, RollStart, StartContainer, Goto
<1>7. CASE UpgradeInspect
  BY <1>7 DEF UpgradeInspect, Goto
<1>8. CASE RollList
  BY <1>8 DEF RollList, Goto
<1>9. CASE RollStop \/ RemoveStop
  BY <1>9 DEF RollStop, RemoveStop, StopContainer, Goto
<1>10. CASE RollWait
  BY <1>10 DEF RollWait, Goto
<1>11. CASE RollRename
  BY <1>11 DEF RollRename, Goto, Fail
<1>12. CASE RollRemove \/ RemoveRemove
  BY <1>12 DEF RollRemove, RemoveRemove, RemoveContainer, Goto, Fail
<1>13. CASE RemoveInspect
  BY <1>13 DEF RemoveInspect, Goto
<1>14. CASE Return
  BY <1>14 DEF Return
<1>15. CASE Abort
  BY <1>15 DEF Abort, Fail
<1>16. ASSUME NEW n \in Names, ServiceStops(n) PROVE ParkedInv'
  BY <1>16 DEF ServiceStops
<1>17. CASE DaemonRestart
  BY <1>17 DEF DaemonRestart
<1>18. CASE UNCHANGED vars
  BY <1>18 DEF vars
<1> QED
  BY <1>1, <1>2, <1>3, <1>4, <1>5, <1>6, <1>7, <1>8, <1>9, <1>10, <1>11, <1>12,
     <1>13, <1>14, <1>15, <1>16, <1>17, <1>18
     DEF Next, CallStep, Environment, DoRunContainer,
         DoRollingUpdateContainer, DoRemoveContainer

LEMMA NeverLostStep ==
  TypeOK /\ CallInv /\ ParkedInv /\ NeverLost /\ RunHonest /\ [Next]_vars
  => NeverLost'
<1> SUFFICES ASSUME TypeOK, CallInv, ParkedInv, NeverLost, RunHonest, [Next]_vars
             PROVE  NeverLost'
  OBVIOUS
<1> USE DEF NeverLost, CallInv, TypeOK, Names, Status, Started, RunSteps,
   RollSteps,
            RemoveSteps, world
<1>1. ASSUME NEW c \in Config, CallRun(c) PROVE NeverLost'
  BY <1>1 DEF CallRun
<1>2. CASE CallRemove
  BY <1>2 DEF CallRemove
<1>3. CASE RunInspect
  BY <1>3 DEF RunInspect, Goto
<1>4. CASE RunPull \/ RollPull
  BY <1>4 DEF RunPull, RollPull, UseLocalOrPull, Goto
<1>5. CASE RunCreate \/ RollCreate
  BY <1>5 DEF RunCreate, RollCreate, CreateContainer, Goto, Fail
<1>6. CASE RunStart \/ RunRestart \/ RollStart
  BY <1>6 DEF RunStart, RunRestart, RollStart, StartContainer, Goto
<1>7. CASE UpgradeInspect
  BY <1>7 DEF UpgradeInspect, Goto
<1>8. CASE RollList
  BY <1>8 DEF RollList, Goto
<1>9. CASE RollStop \/ RemoveStop
  BY <1>9 DEF RollStop, RemoveStop, StopContainer, Goto
<1>10. CASE RollWait
  BY <1>10 DEF RollWait, Goto
<1>11. CASE RollRename
  BY <1>11 DEF RollRename, Goto, Fail
<1>12. CASE RollRemove \/ RemoveRemove
  BY <1>12 DEF RollRemove, RemoveRemove, RemoveContainer, Goto, Fail
<1>13. CASE RemoveInspect
  BY <1>13 DEF RemoveInspect, Goto
<1>14. CASE Return
  BY <1>14 DEF Return
<1>15. CASE Abort
  BY <1>15 DEF Abort, Fail
<1>16. ASSUME NEW n \in Names, ServiceStops(n) PROVE NeverLost'
  BY <1>16 DEF ServiceStops
<1>17. CASE DaemonRestart
  BY <1>17 DEF DaemonRestart
<1>18. CASE UNCHANGED vars
  BY <1>18 DEF vars
<1> QED
  BY <1>1, <1>2, <1>3, <1>4, <1>5, <1>6, <1>7, <1>8, <1>9, <1>10, <1>11, <1>12,
     <1>13, <1>14, <1>15, <1>16, <1>17, <1>18
     DEF Next, CallStep, Environment, DoRunContainer,
         DoRollingUpdateContainer, DoRemoveContainer

LEMMA RunHonestStep ==
  TypeOK /\ CallInv /\ ParkedInv /\ NeverLost /\ RunHonest /\ [Next]_vars
  => RunHonest'
<1> SUFFICES ASSUME TypeOK, CallInv, ParkedInv, NeverLost, RunHonest, [Next]_vars
             PROVE  RunHonest'
  OBVIOUS
<1> USE DEF RunHonest, CallInv, Upgradable, TypeOK, Names, Status, Started,
   RunSteps, RollSteps,
            RemoveSteps, world
<1>1. ASSUME NEW c \in Config, CallRun(c) PROVE RunHonest'
  BY <1>1 DEF CallRun
<1>2. CASE CallRemove
  BY <1>2 DEF CallRemove
<1>3. CASE RunInspect
  BY <1>3 DEF RunInspect, Goto
<1>4. CASE RunPull \/ RollPull
  BY <1>4 DEF RunPull, RollPull, UseLocalOrPull, Goto
<1>5. CASE RunCreate \/ RollCreate
  BY <1>5 DEF RunCreate, RollCreate, CreateContainer, Goto, Fail
<1>6. CASE RunStart \/ RunRestart \/ RollStart
  BY <1>6 DEF RunStart, RunRestart, RollStart, StartContainer, Goto
<1>7. CASE UpgradeInspect
  BY <1>7 DEF UpgradeInspect, Goto
<1>8. CASE RollList
  BY <1>8 DEF RollList, Goto
<1>9. CASE RollStop \/ RemoveStop
  BY <1>9 DEF RollStop, RemoveStop, StopContainer, Goto
<1>10. CASE RollWait
  BY <1>10 DEF RollWait, Goto
<1>11. CASE RollRename
  BY <1>11 DEF RollRename, Goto, Fail
<1>12. CASE RollRemove \/ RemoveRemove
  BY <1>12 DEF RollRemove, RemoveRemove, RemoveContainer, Goto, Fail
<1>13. CASE RemoveInspect
  BY <1>13 DEF RemoveInspect, Goto
<1>14. CASE Return
  BY <1>14 DEF Return
<1>15. CASE Abort
  BY <1>15 DEF Abort, Fail
<1>16. ASSUME NEW n \in Names, ServiceStops(n) PROVE RunHonest'
  BY <1>16 DEF ServiceStops
<1>17. CASE DaemonRestart
  BY <1>17 DEF DaemonRestart
<1>18. CASE UNCHANGED vars
  BY <1>18 DEF vars
<1> QED
  BY <1>1, <1>2, <1>3, <1>4, <1>5, <1>6, <1>7, <1>8, <1>9, <1>10, <1>11, <1>12,
     <1>13, <1>14, <1>15, <1>16, <1>17, <1>18
     DEF Next, CallStep, Environment, DoRunContainer,
         DoRollingUpdateContainer, DoRemoveContainer

LEMMA AllInvariant ==
  Spec => [](TypeOK /\ CallInv /\ ParkedInv /\ NeverLost /\ RunHonest)
<1>1. Init => CallInv /\ ParkedInv /\ NeverLost /\ RunHonest
  BY DEF Init, CallInv, ParkedInv, NeverLost, RunHonest, Names, RunSteps,
         RollSteps, RemoveSteps
<1> QED
  BY <1>1, TypeInit, TypeStep, CallInvStep, ParkedInvStep, NeverLostStep,
     RunHonestStep, PTL DEF Spec

\* Without a daemon restart the two containers of a service never run side by
\* side, whichever calls of the rolling update fail.
THEOREM OneGenerationHolds == Spec => []OneGeneration
<1>1. ParkedInv => OneGeneration
  BY DEF ParkedInv, OneGeneration
<1> QED BY <1>1, AllInvariant, PTL

\* No sequence of failed, interrupted and repeated runs and upgrades loses the
\* last container of a service that rke has not set out to remove.
THEOREM NeverLostHolds == Spec => []NeverLost
  BY AllInvariant, PTL

\* A DoRunContainer that returns nil after finding no container or a running
\* one, undisturbed, leaves the image and command asked for running.
THEOREM RunHonestHolds == Spec => []RunHonest
  BY AllInvariant, PTL

-----------------------------------------------------------------------------
(* docker.go implements its promise, ServiceSlot: every step of a run, an   *)
(* upgrade, a removal or the environment is a step of the promise or leaves *)
(* it as it is.                                                             *)

\* The states before a step: what AllInvariant establishes of them.
Reached == TypeOK /\ CallInv /\ ParkedInv /\ NeverLost /\ RunHonest

LEMMA SlotInit == Init => Slot!Init
<1> SUFFICES ASSUME Init PROVE Slot!Init
  OBVIOUS
<1> USE DEF Init, Names, HasRun, Started
<1>1. {m \in Names : HasRun(m)} = {}
  OBVIOUS
<1>2. {cfg[n] : n \in {m \in Names : HasRun(m)}} = {}
  BY <1>1
<1> QED BY <1>2 DEF Slot!Init

LEMMA SlotStep == Reached /\ [Next]_vars => [Slot!Next]_(Slot!vars)
<1> SUFFICES ASSUME Reached, [Next]_vars PROVE [Slot!Next]_(Slot!vars)
  OBVIOUS
<1> USE DEF Reached, TypeOK, Names, Status, Started, RunSteps, RollSteps,
            RemoveSteps, world, HasRun, FoundStatus, Slot!vars
<1>1. ASSUME NEW c \in Config, CallRun(c) PROVE Slot!Ask(c)
  BY <1>1 DEF CallRun, Slot!Ask
<1>2. CASE CallRemove
  <2>1. Slot!AskRemoval
    BY <1>2 DEF CallRemove, Slot!AskRemoval
  <2> QED BY <2>1 DEF Slot!Next
<1>3. CASE RunInspect \/ RunPull \/ RollPull \/ UpgradeInspect \/ RollList
           \/ RollWait \/ RemoveInspect
  <2>1. UNCHANGED Slot!vars
    BY <1>3 DEF RunInspect, RunPull, RollPull, UseLocalOrPull, UpgradeInspect,
                RollList, RollWait, RemoveInspect, Goto, CallInv
  <2> QED BY <2>1
<1>4. CASE RunCreate \/ RollCreate
  <2>1. Slot!Prepare \/ Slot!GiveUp
    BY <1>4 DEF RunCreate, RollCreate, CreateContainer, Goto, Fail, CallInv,
                Slot!Prepare, Slot!GiveUp
  <2> QED BY <2>1 DEF Slot!Next
<1>5. CASE RunStart \/ RunRestart \/ RollStart
  <2>1. Slot!Serve \/ UNCHANGED Slot!vars
    BY <1>5 DEF RunStart, RunRestart, RollStart, StartContainer, Goto, CallInv,
                Slot!Serve
  <2> QED BY <2>1 DEF Slot!Next
<1>6. CASE RollStop \/ RemoveStop
  <2>1. Slot!Stop \/ UNCHANGED Slot!vars
    BY <1>6 DEF RollStop, RemoveStop, StopContainer, Goto, CallInv, Slot!Stop
  <2> QED BY <2>1 DEF Slot!Next
<1>7. CASE RollRename
  <2>1. CASE st["old"] # "absent"
    <3>1. Slot!GiveUp
      BY <1>7, <2>1 DEF RollRename, Goto, Fail, CallInv, Slot!GiveUp
    <3> QED BY <3>1 DEF Slot!Next
  <2>2. CASE st["old"] = "absent"
    <3>1. {m \in Names : HasRun(m)} = {"svc"} /\ {m \in Names : HasRun(m)}' = {"old"}
      BY <1>7, <2>2 DEF RollRename, CallInv
    <3>2. cfg'["old"] = cfg["svc"]
      BY <1>7, <2>2 DEF RollRename
    <3>3. {cfg[n] : n \in {m \in Names : HasRun(m)}} = {cfg["svc"]}
      BY <3>1
    <3>4. {cfg[n] : n \in {m \in Names : HasRun(m)}}' = {cfg'["old"]}
      BY <3>1
    \* A daemon restart may have revived the container: renaming it takes the
    \* running service out of its slot.
    <3>5. Slot!Stop \/ UNCHANGED Slot!vars
      BY <1>7, <2>2, <3>2, <3>3, <3>4 DEF RollRename, Goto, CallInv, Slot!Stop
    <3> QED BY <3>5 DEF Slot!Next
  <2> QED BY <2>1, <2>2
<1>8. CASE RollRemove
  <2>1. Slot!Replace \/ Slot!GiveUp
    BY <1>8 DEF RollRemove, RemoveContainer, Goto, Fail, CallInv,
                Slot!Replace, Slot!GiveUp
  <2> QED BY <2>1 DEF Slot!Next
<1>9. CASE RemoveRemove
  <2>1. Slot!Discard \/ Slot!GiveUp
    BY <1>9 DEF RemoveRemove, RemoveContainer, Goto, Fail, CallInv,
                Slot!Discard, Slot!GiveUp
  <2> QED BY <2>1 DEF Slot!Next
<1>10. CASE Return
  <2>1. Slot!Succeed
    BY <1>10 DEF Return, CallInv, RunHonest, SameService, Slot!Succeed
  <2> QED BY <2>1 DEF Slot!Next
<1>11. CASE Abort
  <2>1. Slot!GiveUp
    BY <1>11 DEF Abort, Fail, CallInv, Slot!GiveUp
  <2> QED BY <2>1 DEF Slot!Next
<1>12. ASSUME NEW n \in Names, ServiceStops(n) PROVE Slot!Disturb
  <2> DEFINE kept == {cfg[i] : i \in {m \in Names : HasRun(m)}}
             serving == IF st["svc"] = "running" THEN {cfg["svc"]} ELSE {}
  <2>1. UNCHANGED kept
    BY <1>12 DEF ServiceStops
  <2>2. serving' = {} \/ \E g \in kept : serving' = {g}
    BY <1>12 DEF ServiceStops
  <2> QED BY <1>12, <2>1, <2>2 DEF ServiceStops, CallInv, Slot!Disturb
<1>13. CASE DaemonRestart
  <2>1. Slot!Disturb
    <3> DEFINE kept == {cfg[i] : i \in {m \in Names : HasRun(m)}}
               serving == IF st["svc"] = "running" THEN {cfg["svc"]} ELSE {}
    <3>1. UNCHANGED kept
      BY <1>13 DEF DaemonRestart
    <3>2. serving' = {} \/ \E g \in kept : serving' = {g}
      BY <1>13 DEF DaemonRestart
    <3> QED BY <1>13, <3>1, <3>2 DEF DaemonRestart, CallInv, Slot!Disturb
  <2> QED BY <2>1 DEF Slot!Next
<1>14. CASE UNCHANGED vars
  BY <1>14 DEF vars
<1>15. \A g \in Config : Slot!Ask(g) => Slot!Next
  BY DEF Slot!Next
<1>16. Slot!Disturb => Slot!Next
  BY DEF Slot!Next
<1> QED
  BY <1>1, <1>2, <1>3, <1>4, <1>5, <1>6, <1>7, <1>8, <1>9, <1>10, <1>11, <1>12,
     <1>13, <1>14, <1>15, <1>16
     DEF Next, CallStep, Environment, DoRunContainer,
         DoRollingUpdateContainer, DoRemoveContainer

\* docker.go implements ServiceSlot for all images, commands and entrypoints
\* and however many calls fail: a generation that has run is given up only
\* once the one asked for has been started, or for a removal, and a call that
\* returns nil has done what it was asked.
THEOREM KeepsPromiseHolds == Spec => KeepsPromise
  BY AllInvariant, SlotInit, SlotStep, PTL DEF Spec, KeepsPromise, Slot!Spec,
     Reached

-----------------------------------------------------------------------------
(* HostCleaner.                                                             *)

\* The parts of the state that the argument reads keep their types.
CleanTypeOK ==
    /\ phase \in {"idle", "run", "wait", "remove"}
    /\ st \in [Names -> Status]
    /\ cfg \in [Names -> Config]
    /\ want \in Config

\* CleanUp and the DoRunContainer it calls are at matching places, and the
\* status DoRunContainer found decides which of its paths it is on.
PathInv ==
    /\ phase = "run" <=> pc # "idle"
    /\ phase = "run" =>
          /\ pc \in RunSteps \cup RollSteps \cup {"return"}
          /\ asked = want.cmd
    /\ pc = "run_restart" => seen \in {"created", "exited"}
    /\ pc \in RollSteps \cup {"upg_inspect"} => seen = "running"
    /\ pc = "run_start" => cfg["svc"] = want

\* From the start of a fresh cleaner until it is removed, the container is the
\* one that was asked for, and it ends only by having deleted its paths.
FreshInv ==
    seen = "absent" /\ ~disturbed =>
        /\ pc = "return" \/ phase = "wait" =>
              /\ cfg["svc"].cmd = asked
              /\ \/ st["svc"] = "running"
                 \/ dirs \cap asked = {}
        /\ phase = "remove" => dirs \cap asked = {}

CleanInv == CleanTypeOK /\ PathInv /\ FreshInv

LEMMA CleanInvInit == CleanInit => CleanInv
  BY DEF CleanInit, Init, CleanInv, CleanTypeOK, PathInv, FreshInv, Names,
     Status,
         RunSteps, RollSteps

\* Steps inside DoRunContainer, on every path through it.
LEMMA RunCleanerStep == CleanInv /\ RunCleaner => CleanInv'
<1> SUFFICES ASSUME CleanInv, RunCleaner PROVE CleanInv'
  OBVIOUS
<1> USE DEF CleanInv, CleanTypeOK, PathInv, FreshInv, RunCleaner, Names,
   Status,
            Started, RunSteps, RollSteps, world
<1>1. CASE RunInspect
  BY <1>1 DEF RunInspect, Goto
<1>2. CASE RunPull \/ RollPull
  BY <1>2 DEF RunPull, RollPull, UseLocalOrPull, Goto
<1>3. CASE RunCreate \/ RollCreate
  BY <1>3 DEF RunCreate, RollCreate, CreateContainer, Goto, Fail
<1>4. CASE RunStart \/ RunRestart \/ RollStart
  BY <1>4 DEF RunStart, RunRestart, RollStart, StartContainer, Goto
<1>5. CASE UpgradeInspect \/ RollList
  BY <1>5 DEF UpgradeInspect, RollList, Goto
<1>6. CASE RollStop \/ RollWait
  BY <1>6 DEF RollStop, StopContainer, RollWait, Goto
<1>7. CASE RollRename
  BY <1>7 DEF RollRename, Goto, Fail
<1>8. CASE RollRemove
  BY <1>8 DEF RollRemove, RemoveContainer, Goto, Fail
<1>9. CASE DoRemoveContainer
  BY <1>9 DEF DoRemoveContainer, RemoveInspect, RemoveStop, RemoveRemove
<1>10. CASE Return
  BY <1>10 DEF Return
<1> QED
  BY <1>1, <1>2, <1>3, <1>4, <1>5, <1>6, <1>7, <1>8, <1>9, <1>10
     DEF CallStep, DoRunContainer, DoRollingUpdateContainer

LEMMA CleanInvStep == CleanInv /\ [CleanNext]_cleanVars => CleanInv'
<1> SUFFICES ASSUME CleanInv, [CleanNext]_cleanVars PROVE CleanInv'
  OBVIOUS
<1> USE DEF CleanInv, CleanTypeOK, PathInv, FreshInv, Names, Status, Started,
            RunSteps, RollSteps, world, vars
<1>1. ASSUME NEW c \in Config, CleanUp(c) PROVE CleanInv'
  BY <1>1 DEF CleanUp, CallRun
<1>2. CASE RunCleaner
  BY <1>2, RunCleanerStep
<1>3. CASE WaitForCleaner
  BY <1>3 DEF WaitForCleaner
<1>4. CASE RemoveCleaner
  BY <1>4 DEF RemoveCleaner
<1>5. ASSUME NEW n \in Names, CleanerExits(n) PROVE CleanInv'
  BY <1>5 DEF CleanerExits
<1>6. CASE Redeploy
  BY <1>6 DEF Redeploy
<1>7. CASE CleanUpAborts
  BY <1>7 DEF CleanUpAborts, Abort, Fail
<1>8. ASSUME NEW n \in Names, ServiceStops(n), UNCHANGED <<phase, asked, dirs, result>>
      PROVE  CleanInv'
  BY <1>8 DEF ServiceStops
<1>9. CASE DaemonRestart /\ UNCHANGED <<phase, asked, dirs, result>>
  BY <1>9 DEF DaemonRestart
<1>10. CASE UNCHANGED cleanVars
  BY <1>10 DEF cleanVars
<1> QED
  BY <1>1, <1>2, <1>3, <1>4, <1>5, <1>6, <1>7, <1>8, <1>9, <1>10
     DEF CleanNext, HostEvent

\* A CleanUp that found no cleaner and was left alone has deleted all of its
\* directories by the time it removes the cleaner and returns nil.
THEOREM FreshCleanUpCleansHolds == CleanSpec => []FreshCleanUpCleans
<1>1. CleanInv => FreshCleanUpCleans
  BY DEF CleanInv, FreshInv, FreshCleanUpCleans, Cleaned
<1> QED
  BY <1>1, CleanInvInit, CleanInvStep, PTL DEF CleanSpec
=============================================================================
