SPECIFICATION Spec
CONSTANTS
    i = i
    j = j
    d = d
    e = e
    f = f
    Procs = {p1, p2}
    Patches <- Three
    Paths = {t}
    Absent = Absent
    Empty = Empty
    Foreign = Foreign
    Nothing = Nothing
SYMMETRY Symmetry
INVARIANTS MarkedWhole LeftoversMarked
PROPERTIES Untouched
