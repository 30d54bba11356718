CONSTANTS
    n1 = n1
    n2 = n2
    b1 = b1
    b2 = b2
    None = None
    Nodes <- MCNodes
    Blocks <- MCBlocks
    MaxChanges = 3
    MaxRestarts = 1
SPECIFICATION Spec
INVARIANT TypeOK
INVARIANT StoreExplained
CHECK_DEADLOCK FALSE
