--------------------------- MODULE DockerContainer ---------------------------
(***************************************************************************)
(* How RKE runs, upgrades and removes one service container on one host:   *)
(* DoRunContainer, DoRollingUpdateContainer and DoRemoveContainer of       *)
(* docker/docker.go.  Every call to the Docker API is a step of its own,   *)
(* because an error, a killed rke process or somebody else's command on    *)
(* the host can fall between any two of them.                              *)
(*                                                                         *)
(* A host has two container names per service: the service's own ("svc",   *)
(* e.g. kubelet) and the one the rolling update parks the previous         *)
(* container under ("old", e.g. old-kubelet).                              *)
(*                                                                         *)
(* Abstractions: an image, a command and an entrypoint are opaque values;  *)
(* registries and credentials are left out (a pull either brings the image *)
(* to the host, fails, or seems to succeed); the Docker daemon is external *)
(* and modelled by the calls made to it.                                   *)
(***************************************************************************)
EXTENDS Naturals

CONSTANTS
    Images,         \* image references
    Cmds,           \* values of container.Config.Cmd
    Entries,        \* values of container.Config.Entrypoint
    RestartAlways,  \* TRUE iff the container has restart policy "always"
    MaxFaults,      \* bound on API errors and crashes of rke
    MaxRestarts     \* bound on restarts of the Docker daemon or the host

ASSUME ConstantsAssumption ==
    /\ RestartAlways \in BOOLEAN
    /\ MaxFaults \in Nat
    /\ MaxRestarts \in Nat

VARIABLES
    st,         \* st[n]: status of the container called n
    cfg,        \* cfg[n]: what it was created from (meaningful unless absent)
    images,     \* images present on the host
    pc,         \* the API call rke makes next on this host
    op,         \* the docker.go entry point in progress or last finished
    want,       \* its imageCfg argument
    seen,       \* status of svc when DoRunContainer inspected it
    ret,        \* result of the last call: "none" while it runs
    faults,     \* API errors and crashes so far
    restarts,   \* daemon restarts so far
    disturbed,  \* something outside rke touched the host during this call
    everRan     \* svc was started since the last time rke set out to remove it

vars == <<st, cfg, images, pc, op, want, seen, ret, faults, restarts,
          disturbed, everRan>>
world == <<faults, restarts, disturbed>>

Names == {"svc", "old"}
Status == {"absent", "created", "running", "exited"}
Started == {"running", "exited"}
Config == [image : Images, cmd : Cmds, entry : Entries]

RunSteps == {"run_inspect", "run_pull", "run_create", "run_start",
             "run_restart", "upg_inspect"}
RollSteps == {"roll_list", "roll_pull", "roll_stop", "roll_wait",
              "roll_rename", "roll_create", "roll_start", "roll_remove"}
RemoveSteps == {"rm_inspect", "rm_stop", "rm_remove"}
Steps == {"idle", "return"} \cup RunSteps \cup RollSteps \cup RemoveSteps

Init ==
    /\ st = [n \in Names |-> "absent"]
    /\ want \in Config
    /\ cfg = [n \in Names |-> want]
    /\ images = {}
    /\ pc = "idle"
    /\ op = "none"
    /\ seen = "absent"
    /\ ret = "none"
    /\ faults = 0
    /\ restarts = 0
    /\ disturbed = FALSE
    /\ everRan = FALSE

-----------------------------------------------------------------------------
(* Bookkeeping of a call.                                                   *)

Goto(step) == pc' = step /\ UNCHANGED ret

\* Mutant of Fail: the error path forgets to return.
FailFallsThrough == pc' = "failed" /\ ret' = "err"

\* The call returns an error to its caller.
Fail == pc' = "idle" /\ ret' = "err"

\* DoRunContainer is called with the configuration c.
CallRun(c) ==
    /\ pc = "idle"
    /\ pc' = "run_inspect"
    /\ op' = "run"
    /\ want' = c
    /\ ret' = "none"
    /\ disturbed' = FALSE
    /\ UNCHANGED <<st, cfg, images, seen, faults, restarts, everRan>>

\* DoRemoveContainer is called.
CallRemove ==
    /\ pc = "idle"
    /\ pc' = "rm_inspect"
    /\ op' = "remove"
    /\ ret' = "none"
    /\ disturbed' = FALSE
    /\ everRan' = FALSE
    /\ UNCHANGED <<st, cfg, images, want, seen, faults, restarts>>

\* The last API call has been answered and the function returns nil.
Return ==
    /\ pc = "return"
    /\ pc' = "idle"
    /\ ret' = "ok"
    /\ UNCHANGED <<st, cfg, images, op, want, seen, world, everRan>>

-----------------------------------------------------------------------------
(* Docker API calls, as the daemon answers them.                            *)

\* UseLocalOrPull.  The image is local, or is pulled; pullImage discards the
\* stream ImagePull returns, so a pull that breaks off also counts as done.
UseLocalOrPull(next) ==
    /\ Goto(next)
    /\ \/ /\ images' = images \cup {want.image}
          /\ UNCHANGED faults
       \/ /\ want.image \notin images
          /\ faults < MaxFaults
          /\ faults' = faults + 1
          /\ UNCHANGED images
    /\ UNCHANGED <<st, cfg, op, want, seen, restarts, disturbed, everRan>>

\* ContainerCreate under the service's name: refused if the name is taken or
\* the image is missing.
CreateContainer(next) ==
    /\ \/ /\ st["svc"] = "absent"
          /\ want.image \in images
          /\ st' = [st EXCEPT !["svc"] = "created"]
          /\ cfg' = [cfg EXCEPT !["svc"] = want]
          /\ Goto(next)
       \/ /\ st["svc"] # "absent" \/ want.image \notin images
          /\ Fail
          /\ UNCHANGED <<st, cfg>>
    /\ UNCHANGED <<images, op, want, seen, world, everRan>>

\* ContainerStart of the service's container; a running one stays running.
StartContainer(next) ==
    /\ st' = [st EXCEPT !["svc"] = "running"]
    /\ everRan' = TRUE
    /\ Goto(next)
    /\ UNCHANGED <<cfg, images, op, want, seen, world>>

\* ContainerStop of the service's container; a stopped one stays as it is.
StopContainer(next) ==
    /\ st' = [st EXCEPT !["svc"] = IF @ = "running" THEN "exited" ELSE @]
    /\ Goto(next)
    /\ UNCHANGED <<cfg, images, op, want, seen, world, everRan>>

\* ContainerRemove without force: refused for a running or unknown container.
RemoveContainer(n) ==
    /\ \/ /\ st[n] \in {"created", "exited"}
          /\ st' = [st EXCEPT ![n] = "absent"]
          /\ Goto("return")
       \/ /\ st[n] \in {"absent", "running"}
          /\ Fail
          /\ UNCHANGED st
    /\ UNCHANGED <<cfg, images, op, want, seen, world, everRan>>

-----------------------------------------------------------------------------
(* DoRunContainer.                                                          *)

RunInspect ==
    /\ pc = "run_inspect"
    /\ seen' = st["svc"]
    /\ Goto(CASE st["svc"] = "absent"  -> "run_pull"
              [] st["svc"] = "running" -> "upg_inspect"
              [] OTHER                 -> "run_restart")
    /\ UNCHANGED <<st, cfg, images, op, want, world, everRan>>

RunPull == pc = "run_pull" /\ UseLocalOrPull("run_create")

RunCreate == pc = "run_create" /\ CreateContainer("run_start")

RunStart == pc = "run_start" /\ StartContainer("return")

\* Mutant of RunRestart: an existing container is taken to be running.
RunRestartSkipped ==
    /\ pc = "run_restart"
    /\ Goto("return")
    /\ UNCHANGED <<st, cfg, images, op, want, seen, world, everRan>>

\* A stopped container is started as it is: its configuration is not compared.
RunRestart == pc = "run_restart" /\ StartContainer("return")

\* Mutant of Upgradable: a changed command is not noticed.
UpgradableImageOnly(have) == have.image # want.image

\* IsContainerUpgradable: only the image and the command are compared.
Upgradable(have) == have.image # want.image \/ have.cmd # want.cmd

UpgradeInspect ==
    /\ pc = "upg_inspect"
    /\ Goto(IF Upgradable(cfg["svc"]) THEN "roll_list" ELSE "return")
    /\ UNCHANGED <<st, cfg, images, op, want, seen, world, everRan>>

-----------------------------------------------------------------------------
(* DoRollingUpdateContainer.                                                *)

\* IsContainerRunning: a container that is no longer running ends the update
\* without an error.
RollList ==
    /\ pc = "roll_list"
    /\ Goto(IF st["svc"] = "running" THEN "roll_pull" ELSE "return")
    /\ UNCHANGED <<st, cfg, images, op, want, seen, world, everRan>>

\* Mutant of RollPull: the old container is renamed without being stopped.
RollPullNoStop == pc = "roll_pull" /\ UseLocalOrPull("roll_rename")

RollPull == pc = "roll_pull" /\ UseLocalOrPull("roll_stop")

RollStop == pc = "roll_stop" /\ StopContainer("roll_wait")

\* StopRenameContainer waits for the container to stop; when the wait itself
\* fails it returns nil, and the caller goes on as if it had been renamed.
RollWait ==
    /\ pc = "roll_wait"
    /\ \/ /\ st["svc"] # "running"
          /\ Goto("roll_rename")
          /\ UNCHANGED faults
       \/ /\ faults < MaxFaults
          /\ faults' = faults + 1
          /\ Goto("roll_create")
    /\ UNCHANGED <<st, cfg, images, op, want, seen, restarts, disturbed,
                   everRan>>

\* Mutant of RollRename: the old container is removed, not parked.
RollRenameRemoves ==
    /\ pc = "roll_rename"
    /\ st' = [st EXCEPT !["svc"] = "absent"]
    /\ Goto("roll_create")
    /\ UNCHANGED <<cfg, images, op, want, seen, world, everRan>>

\* RenameContainer to old-<name>, refused if that name is taken.
RollRename ==
    /\ pc = "roll_rename"
    /\ \/ /\ st["old"] = "absent"
          /\ st' = [st EXCEPT !["old"] = st["svc"], !["svc"] = "absent"]
          /\ cfg' = [cfg EXCEPT !["old"] = cfg["svc"]]
          /\ Goto("roll_create")
       \/ /\ st["old"] # "absent"
          /\ Fail
          /\ UNCHANGED <<st, cfg>>
    /\ UNCHANGED <<images, op, want, seen, world, everRan>>

RollCreate == pc = "roll_create" /\ CreateContainer("roll_start")

RollStart == pc = "roll_start" /\ StartContainer("roll_remove")

RollRemove == pc = "roll_remove" /\ RemoveContainer("old")

-----------------------------------------------------------------------------
(* DoRemoveContainer.                                                       *)

\* Mutant of RemoveInspect: a container that does not run counts as removed.
RemoveInspectRunning ==
    /\ pc = "rm_inspect"
    /\ Goto(IF st["svc"] # "running" THEN "return" ELSE "rm_stop")
    /\ UNCHANGED <<st, cfg, images, op, want, seen, world, everRan>>

RemoveInspect ==
    /\ pc = "rm_inspect"
    /\ Goto(IF st["svc"] = "absent" THEN "return" ELSE "rm_stop")
    /\ UNCHANGED <<st, cfg, images, op, want, seen, world, everRan>>

RemoveStop == pc = "rm_stop" /\ StopContainer("rm_remove")

RemoveRemove == pc = "rm_remove" /\ RemoveContainer("svc")

-----------------------------------------------------------------------------
(* What happens around rke.                                                 *)

\* The next API call fails, or rke is killed before making it.  That the
\* previous call took effect and only its answer was lost is the same step.
Abort ==
    /\ pc # "idle"
    /\ faults < MaxFaults
    /\ faults' = faults + 1
    /\ Fail
    /\ UNCHANGED <<st, cfg, images, op, want, seen, restarts, disturbed,
                   everRan>>

\* The service stops outside rke: its process ends for good, or somebody
\* stops the container.
ServiceStops(n) ==
    /\ st[n] = "running"
    /\ faults < MaxFaults
    /\ faults' = faults + 1
    /\ st' = [st EXCEPT ![n] = "exited"]
    /\ disturbed' = TRUE
    /\ UNCHANGED <<cfg, images, pc, op, want, seen, ret, restarts, everRan>>

\* The Docker daemon or the host restarts: containers with policy "always"
\* that have ever been started run again, others are left stopped.
DaemonRestart ==
    /\ restarts < MaxRestarts
    /\ restarts' = restarts + 1
    /\ st' = [n \in Names |->
                 IF st[n] \in Started
                 THEN IF RestartAlways THEN "running" ELSE "exited"
                 ELSE st[n]]
    /\ disturbed' = TRUE
    /\ UNCHANGED <<cfg, images, pc, op, want, seen, ret, faults, everRan>>

-----------------------------------------------------------------------------
DoRunContainer ==
    RunInspect \/ RunPull \/ RunCreate \/ RunStart \/ RunRestart

DoRollingUpdateContainer ==
    \/ RollList \/ RollPull \/ RollStop \/ RollWait \/ RollRename
    \/ RollCreate \/ RollStart \/ RollRemove

DoRemoveContainer == RemoveInspect \/ RemoveStop \/ RemoveRemove

\* A step of the docker.go call in progress.
CallStep ==
    \/ DoRunContainer \/ UpgradeInspect \/ DoRollingUpdateContainer
    \/ DoRemoveContainer \/ Return

Environment ==
    \/ Abort
    \/ \E n \in Names : ServiceStops(n)
    \/ DaemonRestart

Next ==
    \/ \E c \in Config : CallRun(c)
    \/ CallRemove
    \/ CallStep
    \/ Environment

Spec == Init /\ [][Next]_vars

\* rke's own steps happen (the code is sequential and waits for nothing but
\* the answers to its calls), and the operator keeps rerunning "rke up".
FairSpec ==
    /\ Spec
    /\ WF_vars(CallStep)
    /\ WF_vars(\E c \in Config : CallRun(c))

-----------------------------------------------------------------------------
(* Properties.                                                              *)

\* Every variable keeps its type.
TypeOK ==
    /\ st \in [Names -> Status]
    /\ cfg \in [Names -> Config]
    /\ images \subseteq Images
    /\ pc \in Steps
    /\ op \in {"none", "run", "remove"}
    /\ want \in Config
    /\ seen \in Status
    /\ ret \in {"none", "ok", "err"}
    /\ faults \in 0..MaxFaults
    /\ restarts \in 0..MaxRestarts
    /\ disturbed \in BOOLEAN
    /\ everRan \in BOOLEAN

\* The rolling update (stop, wait, rename, create, start) never has the old
\* and the new container of a service running at the same time, whatever call
\* of it fails and however often rke is rerun, until a daemon restart revives
\* a parked container.
OneGeneration ==
    restarts = 0 => ~(st["svc"] = "running" /\ st["old"] = "running")

\* No failed or interrupted run or upgrade destroys the service's last
\* container: after its first start, and until rke sets out to remove it,
\* a container that has run exists under one of the two names.
NeverLost == everRan => \E n \in Names : st[n] \in Started

\* A DoRunContainer that found no container, or a running one, and was left
\* alone on the host, returns nil only with a running container of the image
\* and command asked for.
RunHonest ==
    (/\ pc = "return" /\ op = "run"
     /\ seen \in {"absent", "running"}
     /\ ~disturbed)
    => /\ st["svc"] = "running"
       /\ cfg["svc"].image = want.image /\ cfg["svc"].cmd = want.cmd

\* What each call has established by the time of each step: the inductive
\* strengthening of the three properties above and of the refinement below.
CallInv ==
    /\ pc \in RunSteps \cup RollSteps => op = "run"
    /\ pc \in RemoveSteps => op = "remove" /\ ~everRan
    /\ pc \in {"run_pull", "run_create", "run_start"} => seen = "absent"
    /\ pc = "run_restart" => seen \in {"created", "exited"}
    /\ pc \in {"upg_inspect", "roll_list"} =>
          st["svc"] \in Started /\ (~disturbed => st["svc"] = "running")
    /\ pc \in {"roll_pull", "roll_stop", "roll_wait", "roll_rename",
                "roll_remove"} => st["svc"] \in Started
    /\ pc \in {"run_start", "roll_start", "roll_remove"} => cfg["svc"] = want
    /\ pc = "roll_remove" /\ ~disturbed => st["svc"] = "running"
    /\ pc # "idle" => op \in {"run", "remove"}
    /\ pc \in {"run_start", "roll_start"} => st["svc"] = "created"
    /\ pc = "run_restart" => st["svc"] # "absent"
    /\ pc = "return" /\ op = "remove" => st["svc"] = "absent"

\* A parked container has been started and, but for a daemon restart, stopped.
ParkedInv ==
    /\ st["old"] # "created"
    /\ restarts = 0 => st["old"] # "running"
    /\ restarts = 0 /\ pc \in {"roll_wait", "roll_rename"} =>
          st["svc"] = "exited"

\* However calls fail, as long as they fail finitely often and the operator
\* reruns "rke up" and no longer removes the cluster, the service comes back.
ServiceRecovers == <>[](op # "remove") => []<>(st["svc"] = "running")

\* README, Cluster Upgrade: an operator who keeps asking for an image ends up
\* with the service running it, once calls have stopped failing.
UpgradeLands ==
    \A i \in Images :
        <>[](op # "remove" /\ want.image = i)
        => []<>(st["svc"] = "running" /\ cfg["svc"].image = i)

-----------------------------------------------------------------------------
(* The promise of docker.go: ServiceSlot.                                    *)

HasRun(n) == st[n] \in Started

\* Two configurations that IsContainerUpgradable cannot tell apart.
SameService(g, h) == g.image = h.image /\ g.cmd = h.cmd

\* The status DoRunContainer goes by: what it will see, or has seen.
FoundStatus == IF pc = "run_inspect" THEN st["svc"] ELSE seen

Slot == INSTANCE ServiceSlot WITH
    Generations <- Config,
    Same        <- SameService,
    serving     <- IF st["svc"] = "running" THEN {cfg["svc"]} ELSE {},
    prepared    <- IF st["svc"] = "created" THEN {cfg["svc"]} ELSE {},
    kept        <- {cfg[n] : n \in {m \in Names : HasRun(m)}},
    call        <- IF pc = "idle" THEN "none" ELSE op,
    asked       <- want,
    excused     <- /\ pc # "idle" /\ op = "run"
                   /\ disturbed \/ FoundStatus \in {"created", "exited"},
    outcome     <- ret

\* docker.go keeps the promise of ServiceSlot: whatever call to the daemon
\* fails and whatever happens on the host, a generation of the service that
\* has run is given up only once the one asked for has been started, or for a
\* removal; and a call that returns nil has done what it was asked.
KeepsPromise == Slot!Spec
=============================================================================
