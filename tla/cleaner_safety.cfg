SPECIFICATION CleanSpec
CONSTANTS
    Images = {alpine}
    Cmds <- MCCmds
    Entries = {none}
    RestartAlways = FALSE
    MaxFaults = 2
    MaxRestarts = 1
INVARIANTS FreshCleanUpCleans
PROPERTY CleanUpReturns
