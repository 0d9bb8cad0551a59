SPECIFICATION FairSpec
CONSTANTS
    Instances = {i1}
    Clients = {k1}
    ClientOps <- Calls
    Versions = {c0}
    Faults <- Failures
    NoInstance = NoInstance
    Absent = Absent
INVARIANT TypeOK
PROPERTY ImplementsMonitorThread
