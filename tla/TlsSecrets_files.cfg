SPECIFICATION Spec
CONSTANTS
    a = a
    b = b
    VMs <- Pair
    Hosts = {h1}
    Calls = {c1}
    Keys = {cert, key}
    MaxSecrets = 4
    Local <- One
    Faults = {}
PROPERTY Wiped
CHECK_DEADLOCK FALSE
