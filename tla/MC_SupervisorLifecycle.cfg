CONSTANTS
    VMs = {a, b}
    ProbeTries = 1
    NmdmOffset = 0
    MaxExit = 3
    MaxReload = 1
CONSTANT Defs <- DefsLifecycle
INIT Init
NEXT Next
CHECK_DEADLOCK FALSE
INVARIANTS TypeOK AutoComUnique
PROPERTIES ComportSticky LifecycleRefined
