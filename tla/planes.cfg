SPECIFICATION Spec
CONSTANTS
    h1 = h1
    h2 = h2
    Hosts <- MCHosts
    Configs <- MCConfigs
    Stoppable = {"api", "kubelet", "nginx"}
    MaxRuns = 3
    MaxFaults = 1
INVARIANTS AsConfigured CleanRunSucceeds OthersFinished
PROPERTIES UnchangedNotRestarted
\* The operator stops after MaxRuns invocations.
CHECK_DEADLOCK FALSE
