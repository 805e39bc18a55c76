CONSTANTS
    VMs = {a}
    ProbeTries = 1
    NmdmOffset = 0
    MaxExit = 2
    MaxReload = 1
CONSTANT Defs <- DefsLifecycle
INIT RInit
NEXT RNext
CHECK_DEADLOCK FALSE
INVARIANT RetireLiveEvent
