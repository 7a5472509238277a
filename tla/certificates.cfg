SPECIFICATION CertSpec
CONSTANTS
    h1 = h1
    h2 = h2
    Hosts <- Hosts2
    HostOrder <- Order2
    Control <- Control1
    Configs <- Configs2
    MaxRuns = 3
    MaxFaults = 2
INVARIANTS
    SecretsCoverState
    OneCA
    DeployedIsSaved
CHECK_DEADLOCK FALSE
