CONSTANTS
    VMs = {a}
    ProbeTries = 1
    NmdmOffset = 0
    MaxExit = 2
    MaxReload = 1
CONSTANT Defs <- DefsNoReboot
INIT Init
NEXT Next
CHECK_DEADLOCK FALSE
INVARIANT TapsMatchDefinition
