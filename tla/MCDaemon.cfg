SPECIFICATION DaemonSpec
CONSTANTS
    MaxForks = 3
    CanCrash = TRUE
    MaxDepth = 2
    MaxLoads = 2
    MaxOps = 3
    Daemons = {d1, d2}
    Modules <- MCModules
    Configs <- MCConfigs
    MaxStarts = 2
    MaxInstances = 3
    Requests <- MCRequests
    Junk = {"junk", "nul", "nl"}
    BufSize = 12
    MaxForms = 2
INVARIANTS LifeSound ConfigRight AdminSound
PROPERTIES ForkReturns
CHECK_DEADLOCK FALSE
