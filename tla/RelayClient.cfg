SPECIFICATION Spec
CONSTANTS
    Ids = {1, 2, 3, 4}
    Clones = {a, b}
    Initial <- MCInitial
    UserKey = key
    ChunkSizes = {2, 3}
    Limits = {0, 1}
    MaxPushes = 2
    None = None
    a = a
    b = b
INVARIANTS PushedStored StatusSound
PROPERTY CaughtUp
