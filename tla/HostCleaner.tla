----------------------------- MODULE HostCleaner -----------------------------
(***************************************************************************)
(* Host.CleanUp of hosts/hosts.go: RKE deletes directories on a host by    *)
(* running a container called kube-cleaner ("rm -rf <paths>") through      *)
(* DoRunContainer, waiting for it and removing it.  The composition with   *)
(* DockerContainer is what matters: DoRunContainer reuses whatever         *)
(* container of that name an earlier, interrupted clean-up left behind.    *)
(*                                                                         *)
(* The container's Cmd is the set of paths it deletes; it has no restart   *)
(* policy and no entrypoint.                                               *)
(***************************************************************************)
EXTENDS DockerContainer

VARIABLES
    phase,   \* where CleanUp is: "idle", "run", "wait" or "remove"
    asked,   \* toCleanPaths of the CleanUp in progress or last finished
    dirs,    \* the directories present on the host
    result   \* result of the last CleanUp: "none" while it runs

cleanVars == <<vars, phase, asked, dirs, result>>

\* Directories RKE's services leave on a host.
Dirs == {"etcd", "ssl", "cni", "tmp"}

-----------------------------------------------------------------------------
(* The paths each caller of CleanUp passes, by the roles the host keeps.     *)

CleanUpAll == Dirs

\* CleanUpWorkerHost on a host that is not a control host, CleanUpControlHost
\* on one that is not a worker; otherwise both return without cleaning.
CleanUpPlaneHost == {"ssl", "cni"}

CleanUpEtcdHost(sharesHost) ==
    IF sharesHost THEN {"etcd"} ELSE {"etcd", "ssl"}

CleanPaths ==
    {CleanUpAll, CleanUpPlaneHost} \cup
    {CleanUpEtcdHost(shares) : shares \in BOOLEAN}

ASSUME CleanerAssumption ==
    /\ CleanPaths \subseteq Cmds
    /\ ~RestartAlways

-----------------------------------------------------------------------------
CleanInit ==
    /\ Init
    /\ phase = "idle"
    /\ asked = {}
    /\ dirs = Dirs
    /\ result = "none"

\* CleanUp is called and runs the cleaner through DoRunContainer.
CleanUp(c) ==
    /\ phase = "idle"
    /\ c.cmd \in CleanPaths
    /\ CallRun(c)
    /\ phase' = "run"
    /\ asked' = c.cmd
    /\ result' = "none"
    /\ UNCHANGED dirs

\* Steps inside DoRunContainer; its result decides whether CleanUp goes on.
RunCleaner ==
    /\ phase = "run"
    /\ CallStep
    /\ \/ /\ pc' # "idle"
          /\ UNCHANGED <<phase, result>>
       \/ /\ pc' = "idle" /\ ret' = "ok"
          /\ phase' = "wait"
          /\ UNCHANGED result
       \/ /\ pc' = "idle" /\ ret' = "err"
          /\ phase' = "idle"
          /\ result' = "err"
    /\ UNCHANGED <<asked, dirs>>

\* Mutant of WaitForCleaner: waits for the container to be gone.
WaitForCleanerGone ==
    /\ phase = "wait"
    /\ st["svc"] = "absent"
    /\ phase' = "remove"
    /\ UNCHANGED <<vars, asked, dirs, result>>

\* Mutant of WaitForCleaner: does not wait.
WaitForCleanerSkipped ==
    /\ phase = "wait"
    /\ phase' = "remove"
    /\ UNCHANGED <<vars, asked, dirs, result>>

\* WaitForContainer returns once the cleaner is not running, whatever its
\* exit status.
WaitForCleaner ==
    /\ phase = "wait"
    /\ st["svc"] # "running"
    /\ phase' = "remove"
    /\ UNCHANGED <<vars, asked, dirs, result>>

\* RemoveContainer, after which CleanUp returns.
RemoveCleaner ==
    /\ phase = "remove"
    /\ phase' = "idle"
    /\ \/ /\ st["svc"] \in {"created", "exited"}
          /\ st' = [st EXCEPT !["svc"] = "absent"]
          /\ everRan' = FALSE
          /\ result' = "ok"
       \/ /\ st["svc"] \in {"absent", "running"}
          /\ result' = "err"
          /\ UNCHANGED <<st, everRan>>
    /\ UNCHANGED <<cfg, images, pc, op, want, seen, ret, world, asked, dirs>>

\* The cleaner's process deletes the paths it was created with and ends.
CleanerExits(n) ==
    /\ st[n] = "running"
    /\ st' = [st EXCEPT ![n] = "exited"]
    /\ dirs' = dirs \ cfg[n].cmd
    /\ UNCHANGED <<cfg, images, pc, op, want, seen, ret, world, everRan, phase,
                   asked, result>>

\* Services are deployed on the host again between two clean-ups.
Redeploy ==
    /\ phase = "idle"
    /\ dirs' = Dirs
    /\ UNCHANGED <<vars, phase, asked, result>>

\* An API call fails or rke dies, in any phase.
CleanUpAborts ==
    /\ phase # "idle"
    /\ phase' = "idle"
    /\ result' = "err"
    /\ \/ /\ phase = "run" /\ Abort
       \/ /\ phase # "run"
          /\ faults < MaxFaults
          /\ faults' = faults + 1
          /\ UNCHANGED <<st, cfg, images, pc, op, want, seen, ret, restarts,
                         disturbed, everRan>>
    /\ UNCHANGED <<asked, dirs>>

\* The cleaner is killed, or the daemon restarts, in any phase.
HostEvent ==
    /\ (\E n \in Names : ServiceStops(n)) \/ DaemonRestart
    /\ UNCHANGED <<phase, asked, dirs, result>>

CleanNext ==
    \/ \E c \in Config : CleanUp(c)
    \/ RunCleaner \/ WaitForCleaner \/ RemoveCleaner
    \/ \E n \in Names : CleanerExits(n)
    \/ Redeploy \/ CleanUpAborts \/ HostEvent

\* rke's code is sequential and a running "rm -rf" ends.
CleanSpec ==
    /\ CleanInit /\ [][CleanNext]_cleanVars
    /\ WF_cleanVars(RunCleaner \/ WaitForCleaner \/ RemoveCleaner)
    /\ \A n \in Names : WF_cleanVars(CleanerExits(n))

-----------------------------------------------------------------------------
\* CleanUp did its work: the cleaner has ended and none of the directories it
\* was asked to delete is left.
Cleaned == phase = "remove" => dirs \cap asked = {}

\* A CleanUp that found no left-over cleaner, and whose cleaner nobody killed,
\* has deleted every directory it was asked to delete when it returns nil.
FreshCleanUpCleans == (seen = "absent" /\ ~disturbed) => Cleaned

\* Every CleanUp returns, left-over containers and killed cleaners or not.
CleanUpReturns == phase # "idle" ~> phase = "idle"
=============================================================================
