\* Two logins whose fetches overlap while two keys rotate; an entry lives for
\* two ticks and a fetch for one, so an answer can be late and still be stored.
CONSTANTS
    Keys = {k1, k2}
    Requests = {r1, r2}
    CacheDuration = 2
    FetchTimeout = 1
    None = None
SPECIFICATION Spec
SYMMETRY Symmetry
INVARIANTS
    TypeOK
    WithdrawnKeyDies
    NewKeyKnownInTime
PROPERTIES
    KnownKeyKept
