SPECIFICATION Spec
CONSTANTS
    Calls = {c1, c2}
    Pairs = {p1, p2}
    Vdis = {data, iso, d1, d2, d3}
    Vbds = {b0, b1, b2}
    Data = data
    Iso = iso
    DataVbd = b0
    LastDevice = 2
    Ops = {"drive", "image"}
    MaxCalls = 3
    HostInternal = TRUE
    MaxFaults = 2
    Absent = Absent
    NULLREF = NULLREF
    NoDrive = NoDrive
INVARIANT TypeOK
INVARIANT KeyWhole
INVARIANT HandedOutIsPool
INVARIANT NoDiskForgotten
INVARIANT NoDuplicates
INVARIANT DriveKeyWorks
INVARIANT HostTidied
PROPERTY OnlyOwnDisks
PROPERTY DriveLostByFailureOnly
PROPERTY ReturnsAttached
SYMMETRY Symmetry
