SPECIFICATION Spec
CONSTANTS
    Conns = {c1, c2}
    Hashes = {i1, i2, h3}
    Ids = {i1, i2}
    Sigs = {s0, s1, s2, bad}
    Unsigned = s0
    Forged = {bad}
    Keys = {k1, k2}
    Requests <- MCRequests
    Enforce = TRUE
    Legacy = FALSE
    None = None
    Empty = Empty
    Garbled = Garbled
    i1 = i1
    i2 = i2
    h3 = h3
    s0 = s0
    s1 = s1
    s2 = s2
    bad = bad
    k1 = k1
    k2 = k2
SYMMETRY Symmetry
INVARIANTS StoredAuthentic RecordBacked AckedStored RepliesAgree
PROPERTY ImmutableAlone
