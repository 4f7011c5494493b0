SPECIFICATION Spec
CONSTANTS
    patch = patch
    diff = diff
    mine = mine
    theirs = theirs
    Ids = {patch, diff}
    Wires <- MCWires
    DiffOf <- MCDiffOf
    None = None
    Torn = Torn
    Alien = Alien
    MaxClaims = 2
INVARIANTS VerifySound ParityTrue AttestedPushed
PROPERTIES NoLostUpdate ViewerHarmless
