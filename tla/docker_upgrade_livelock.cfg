SPECIFICATION FairSpec
CONSTANTS
    Images = {i1, i2}
    Cmds = {c1}
    Entries = {e1}
    RestartAlways = TRUE
    MaxFaults = 2
    MaxRestarts = 0
PROPERTY UpgradeLands
