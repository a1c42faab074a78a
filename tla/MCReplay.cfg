\* A replay races a rotation of the same family.
CONSTANTS
    Users = {u1}
    Addresses = {a0}
    Tokens = {t1, t2, t3}
    Requests = {r1, r2}
    Cleaner = cleaner
    None = None
    TTL = 1
    MaxTime = 0
SPECIFICATION Spec
INVARIANTS
    ReplayEndsFamily
