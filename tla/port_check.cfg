SPECIFICATION Spec
CONSTANTS
    h1 = h1
    h2 = h2
    h3 = h3
    Hosts <- MCHosts
    Configs <- MCConfigs
    MaxRuns = 3
    MaxFaults = 2
INVARIANTS PassMeansOpen ListenersRemoved NoFalseAlarm
\* The operator stops after MaxRuns runs.
CHECK_DEADLOCK FALSE
