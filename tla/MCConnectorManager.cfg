CONSTANTS
    p1 = p1
    p2 = p2
    cloud = cloud
    Peers <- MCPeers
    CloudSubnets <- MCCloudSubnets
    MaxConfigChanges = 1
    MaxFailures = 1
    ShutdownAllowed = TRUE
SPECIFICATION Spec
INVARIANT TypeOK
PROPERTY Converges AgentsLearnPrefixes
CHECK_DEADLOCK FALSE
