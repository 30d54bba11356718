CONSTANTS
    h1 = h1  r1 = r1  r2 = r2
    c1 = c1  c2 = c2  c3 = c3  c4 = c4
    None = None
    HostReplicas <- MCHostReplicas
    MemberReplicas <- MCMemberReplicas
    Certs <- MCCerts
    MaxFailures = 0
    MaxCrashes = 0
    MaxExpiries = 1
SPECIFICATION Spec
PROPERTY RunsWithValidCert
\* A running operator blocks in manager.Start: a state where every replica
\* runs has no further step.
CHECK_DEADLOCK FALSE
