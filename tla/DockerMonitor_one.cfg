SPECIFICATION FairSpec
CONSTANTS
    VMs = {v1}
    h1 = h1
    h2 = h2
    Hosts = {h1, h2}
    Instances = {i1, i2}
    Sessions = {s1, s2}
    Records <- Life
    NULLREF = NULLREF
    Gone = Gone
    NoEvent = NoEvent
    NoInstance = NoInstance
    NoHost = NoHost
    NoSession = NoSession
INVARIANT TypeOK
INVARIANT NoOrphanThread
INVARIANT RegisteredNotStopped
INVARIANT NoMissedChange
INVARIANT SecretsRemembered
PROPERTY ImplementsMonitorThread
PROPERTY Converges
