\* The refinement of SessionChains, with two addresses to attach.
CONSTANTS
    Users = {u1}
    Addresses = {a0, a1}
    Tokens = {t1, t2, t3}
    Requests = {r1, r2}
    Cleaner = cleaner
    None = None
    TTL = 1
    MaxTime = 1
SPECIFICATION Spec
SYMMETRY Symmetry
PROPERTIES
    NoLostAddress
    ImplementsChains
