CONSTANTS
    h = h
    m1 = m1
    m2 = m2
    Host = h
    Members <- MCMembers
    MaxVersion = 3
    MaxRestarts = 2
SPECIFICATION Spec
PROPERTY EndpointsRoundTrip
CHECK_DEADLOCK FALSE
