SPECIFICATION TransportSpec
CONSTANTS
    Conns = {c1, c2}
    Tries = 3
    Urls = 2
    Lifetimes = {0, 1, 3, 4, 6}
    None = None
INVARIANTS TokenCovers
PROPERTY Returns
