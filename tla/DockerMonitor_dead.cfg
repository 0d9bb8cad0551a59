SPECIFICATION FairSpec
CONSTANTS
    VMs = {v1}
    h1 = h1
    h2 = h2
    Hosts = {h1}
    Instances = {i1, i2}
    Sessions = {s1, s2, s3}
    Records <- OnOrOff
    NULLREF = NULLREF
    Gone = Gone
    NoEvent = NoEvent
    NoInstance = NoInstance
    NoHost = NoHost
    NoSession = NoSession
PROPERTY RegisteredIsMonitored
