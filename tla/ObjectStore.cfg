SPECIFICATION SpecLocal
CONSTANTS
    Procs = {p1, p2}
    Hashes = {i1, h2}
    Ids = {i1}
    Wires = {w1, w2}
    None = None
    Empty = Empty
    Garbled = Garbled
SYMMETRY Symmetry
INVARIANTS AckedDurable NoLostObject ReadAuthentic
PROPERTY ImplementsRegistry
