\* Liveness of the handlers: two of them and the cleaner compete for two rows.
\* The clock stands still, so no row expires and every lock is contended.
CONSTANTS
    Users = {u1}
    Addresses = {a0}
    Tokens = {t1, t2}
    Requests = {r1, r2}
    Cleaner = cleaner
    None = None
    TTL = 1
    MaxTime = 0
SPECIFICATION LiveSpec
PROPERTIES
    RequestsFinish
