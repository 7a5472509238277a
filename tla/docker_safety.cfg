SPECIFICATION FairSpec
CONSTANTS
    Images = {i1, i2}
    Cmds = {c1, c2}
    Entries = {e1}
    RestartAlways = TRUE
    MaxFaults = 3
    MaxRestarts = 1
INVARIANTS TypeOK OneGeneration NeverLost RunHonest
PROPERTIES ServiceRecovers KeepsPromise
\* rke may hang: a container revived by a daemon restart never ends the wait.
CHECK_DEADLOCK FALSE
