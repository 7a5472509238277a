SPECIFICATION FairSpec
CONSTANTS
    h1 = h1
    h2 = h2
    h3 = h3
    Hosts <- Hosts3
    HostOrder <- Order3
    Configs <- AllConfigs3
    MaxRuns = 2
    MaxFaults = 0
INVARIANT HostsAsConfigured
PROPERTIES ReconfigureSucceeds UnchangedHostsKept NodesAppear
\* The operator stops after MaxRuns invocations.
CHECK_DEADLOCK FALSE
