SPECIFICATION Spec
CONSTANTS
    h1 = h1
    h2 = h2
    h3 = h3
    Hosts <- Hosts2
    HostOrder <- Order2
    Configs <- FewConfigs2
    MaxRuns = 3
    MaxFaults = 2
INVARIANTS HostsAsConfigured HostsTracked NodesRegistered 
\* The operator stops after MaxRuns invocations.
CHECK_DEADLOCK FALSE
