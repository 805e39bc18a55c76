CONSTANTS
    VMs = {a}
    ProbeTries = 1
    NmdmOffset = 0
    MaxExit = 2
    MaxReload = 2
CONSTANT Defs <- DefsLifecycle
INIT Init
NEXT Next
CHECK_DEADLOCK FALSE
INVARIANT ActiveDefsLive
