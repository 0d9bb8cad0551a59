SPECIFICATION FairSpec
CONSTANTS
    Instances = {i1}
    Clients = {}
    ClientOps = {}
    Versions = {c0, c1}
    Faults = {"docker"}
    NoInstance = NoInstance
    Absent = Absent
INVARIANT PublishedIsFollowed
INVARIANT NoMessageLeft
PROPERTY EventHandledIsFresh
PROPERTY Published
PROPERTY Unpublished
