CONSTANTS
    h = h
    m1 = m1
    m2 = m2
    Host = h
    Members <- MCMembers
    MaxVersion = 2
    MaxRestarts = 1
SPECIFICATION Spec
PROPERTY NoForeignLoss
CHECK_DEADLOCK FALSE
