CONSTANT NetCounts = {0, 1, 2, 3}
INIT Init
NEXT Next
CHECK_DEADLOCK FALSE
INVARIANT ReturnsClean
PROPERTY ZeroMeansGuestRan
