SPECIFICATION FairSpec
CONSTANTS
    Instances = {i1, i2}
    Clients = {k1}
    ClientOps = {"deregister", "register"}
    Versions = {c0}
    Faults = {}
    NoInstance = NoInstance
    Absent = Absent
PROPERTY SeenAfterRegistering
