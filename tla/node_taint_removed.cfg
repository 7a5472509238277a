SPECIFICATION Spec
CONSTANTS
    h1 = h1
    h2 = h2
    l1 = l1
    Hosts <- MCHosts
    UserLabels = {l1}
    Configs <- MCConfigs
    Tries = 2
    MaxRuns = 2
INVARIANT Schedulable
\* The operator stops after MaxRuns runs.
CHECK_DEADLOCK FALSE
