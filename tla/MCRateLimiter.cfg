\* Two handlers at a time against limits of two and one; windows of one and
\* two ticks, so entries leave them, and the cleaner acts from tick three on.
CONSTANTS
    ip = ip
    cred = cred
    Identifiers = {ip, cred}
    Requests = {r1, r2}
    Routes <- MCRoutes
    Limit <- MCLimit
    Window <- MCWindow
    CleanupAge = 2
    None = None
    MaxTime = 3
SPECIFICATION Spec
SYMMETRY Symmetry
INVARIANTS
    TypeOK
    BoundedOvershoot
    CleanupKeepsWindow
