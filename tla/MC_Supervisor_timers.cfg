CONSTANTS
    VMs = {a}
    ProbeTries = 1
    NmdmOffset = 0
    MaxExit = 3
    MaxReload = 0
CONSTANT Defs <- DefsShutdown
INIT Init
NEXT Next
CHECK_DEADLOCK FALSE
INVARIANT AtMostOneTimer
