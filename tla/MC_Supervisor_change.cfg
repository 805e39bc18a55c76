CONSTANTS
    VMs = {a}
    ProbeTries = 1
    NmdmOffset = 0
    MaxExit = 4
    MaxReload = 2
CONSTANT Defs <- DefsChange
SPECIFICATION LiveSpec
CHECK_DEADLOCK FALSE
INVARIANTS PidValid TapOwnership StopTimerOnlyWhileStopping
PROPERTIES NoOpReloadStable TimeoutBoundsStop
