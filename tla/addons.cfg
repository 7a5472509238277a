SPECIFICATION AddonSpec
CONSTANTS
    Configs <- MCConfigs
    Retries = 2
    MaxRuns = 3
    MaxFaults = 2
INVARIANTS AppliedAsCreated InOrder
\* The operator stops after MaxRuns runs.
CHECK_DEADLOCK FALSE
