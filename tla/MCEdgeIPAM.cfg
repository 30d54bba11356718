CONSTANTS
    n1 = n1
    n2 = n2
    n3 = n3
    b1 = b1
    b2 = b2
    None = None
    Nodes <- MCNodes
    Blocks <- MCBlocks
    MaxRestarts = 2
    MaxAddressLosses = 0
SPECIFICATION Spec
INVARIANT UniquePodCIDRs
