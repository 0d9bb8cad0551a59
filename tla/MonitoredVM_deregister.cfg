SPECIFICATION Spec
CONSTANTS
    Instances = {i1}
    Clients = {k1}
    ClientOps = {"deregister"}
    Versions = {c0, c1}
    Faults = {}
    NoInstance = NoInstance
    Absent = Absent
PROPERTY DeregisteredStays
