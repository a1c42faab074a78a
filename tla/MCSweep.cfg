\* Liveness of the cleanup: a handler takes and releases row locks while the
\* cleaner looks for expired rows.
CONSTANTS
    Users = {u1}
    Addresses = {a0}
    Tokens = {t1, t2}
    Requests = {r1}
    Cleaner = cleaner
    None = None
    TTL = 1
    MaxTime = 2
SPECIFICATION LiveSpec
PROPERTIES
    ExpiredSwept
