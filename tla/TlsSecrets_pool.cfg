SPECIFICATION FairSpec
CONSTANTS
    a = a
    b = b
    VMs <- Pair
    Hosts = {h1, h2}
    Calls = {c1}
    Keys = {cert}
    MaxSecrets = 2
    Local <- One
    Faults <- Failures
INVARIANT TypeOK
INVARIANT InUseKept
INVARIANT NothingForgotten
PROPERTY Tidied
CHECK_DEADLOCK FALSE
