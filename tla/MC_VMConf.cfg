\* One section with every kind of parameter, the allocator failing
\* anywhere: no double free and no dangling pointer while it is built.
CONSTANTS
    MaxAlloc = 16
    MaxParams = 3
    Params = {"string", "fbuf", "disk", "iso", "net"}
INIT Init
NEXT Next
CHECK_DEADLOCK FALSE
INVARIANTS NoDoubleFree NoDangling
