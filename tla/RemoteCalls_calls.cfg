SPECIFICATION Spec
CONSTANTS
    Calls = {c1, c2}
    HostKeys = {k1, k2}
    Hosts = {h1, h2}
    NoHost = NoHost
    Absent = Absent
    Concurrent <- OneOrTwo
    MaxChanges <- TwoOrOne
    MaxBroken = 1
    MaxHops = 4
INVARIANT TypeOK
INVARIANT HostKeyKept
INVARIANT ServedByOwner
INVARIANT Diagnosed
PROPERTY CarriedOutOnce
PROPERTY ComesBack
