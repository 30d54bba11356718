CONSTANTS
    bad = bad
    BadCIDR = bad
    AddrBits = 3
    MaxUnits = 20
SPECIFICATION Spec
INVARIANT OverlapCheckExact
\* Validate runs once; the operator then goes on to RunManager.
CHECK_DEADLOCK FALSE
