SPECIFICATION FairSpec
CONSTANTS
    h1 = h1
    h2 = h2
    h3 = h3
    Hosts <- Hosts3
    HostOrder <- Order3
    Configs <- Configs3
    MaxRuns = 3
    MaxFaults = 2
INVARIANTS OneQuorum MembersIntact
PROPERTIES ViewShared CleanRunSucceeds MembersJoin
\* The operator stops after MaxRuns invocations.
CHECK_DEADLOCK FALSE
