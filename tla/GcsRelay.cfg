SPECIFICATION Spec
CONSTANTS
    Conns = {c1, c2}
    Hashes = {1, 2}
    Ids = {1, 2}
    Sigs = {s0, s1, s2, bad}
    Unsigned = s0
    Forged = {bad}
    Keys = {k1, k2}
    Requests <- MCRequests
    Enforce = TRUE
    Legacy = FALSE
    Tries = 2
    PageSize = 1
    MaxLate = 1
    None = None
    s0 = s0
    s1 = s1
    s2 = s2
    bad = bad
    k1 = k1
    k2 = k2
SYMMETRY Symmetry
INVARIANTS AckedStored RepliesAgree AcceptedOnce
PROPERTY KeepsPromise
