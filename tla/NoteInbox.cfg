SPECIFICATION Spec
CONSTANTS
    Procs = {p1, p2}
    Agents = {a, c}
    Everyone = Everyone
    Notes <- MCNotes
    Modes <- MCModes
    NoSince = NoSince
    Nobody = Nobody
    MarkerOf <- MCMarkerOf
    a = a
    b = b
    c = c
    f = f
SYMMETRY Symmetry
INVARIANTS MarkerBacked MissedExcused
