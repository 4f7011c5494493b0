SPECIFICATION ApplySpec
CONSTANTS
    i = i
    d = d
    e = e
    Procs = {p1, p2}
    Patches <- SameId
    Keys = {k}
    NoKey = NoKey
    Own = Own
    NoFile = NoFile
    Stamps = {t1, t2}
    NoStamp = NoStamp
    MaxApps = 2
SYMMETRY Symmetry
INVARIANTS OneApplicationPerKey AppliedRecorded
