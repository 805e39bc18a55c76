CONSTANTS
    VMs = {a}
    ProbeTries = 1
    NmdmOffset = 0
    MaxExit = 3
    MaxReload = 0
CONSTANT Defs <- DefsShutdown
SPECIFICATION LiveSpec
CHECK_DEADLOCK FALSE
PROPERTY ShutdownCompletes
