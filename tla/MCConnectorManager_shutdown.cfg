CONSTANTS
    p1 = p1
    p2 = p2
    cloud = cloud
    Peers <- MCPeers
    CloudSubnets <- MCCloudSubnets
    MaxConfigChanges = 1
    MaxFailures = 0
    ShutdownAllowed = TRUE
SPECIFICATION Spec
INVARIANT ShutdownRemovesRoutesAndSNat
CHECK_DEADLOCK FALSE
