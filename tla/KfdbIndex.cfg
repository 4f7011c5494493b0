SPECIFICATION IndexSpec
CONSTANTS
    Ids = {1, 2, 3, 4}
    Values = {ch, pt, pk, fl, rn, at}
    Kind <- MCKind
    Body <- MCBody
    Signers <- MCSigners
    Threads = {t1, t2}
    Bundles <- MCBundles
    IndexLimit = 4
    NoObject = NoObject
    ch = ch
    pt = pt
    pk = pk
    fl = fl
    rn = rn
    at = at
SYMMETRY Symmetry
INVARIANTS GraphSound ProofSound
