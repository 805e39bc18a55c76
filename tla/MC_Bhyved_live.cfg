CONSTANTS
    VMs = {a, b, c}
    Boots = {a, b}
CONSTANT Nets <- NetsOf
INIT Init
NEXT Next
CHECK_DEADLOCK FALSE
INVARIANT ActiveHasProcess
