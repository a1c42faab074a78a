\* Two handlers at a time, three tokens, two users: logins may expire, and
\* expire at different times.
CONSTANTS
    Users = {u1, u2}
    Addresses = {a0}
    Tokens = {t1, t2, t3}
    Requests = {r1, r2}
    Cleaner = cleaner
    None = None
    TTL = 2
    MaxTime = 2
SPECIFICATION Spec
SYMMETRY Symmetry
INVARIANTS
    TypeOK
    RedeemedOnce
    OneLivePerChain
    ChainFacts
    LogoutSticks
    Inv
PROPERTIES
    NoSilentSignOut
