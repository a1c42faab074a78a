\* An OAuth user, who proves the address for its vault or binds it by zkLogin,
\* and the user of the wallet; two logins, or one and its rotation.
CONSTANTS
    u1 = u1
    w1 = w1
    a1 = a1
    Users = {u1, w1}
    ZkUsers = {u1}
    Wallet <- MCWallet
    Addresses = {a1}
    Empty = Empty
    Tokens = {t1, t2}
    Requests = {r1, r2}
    Cleaner = cleaner
    None = None
    TTL = 1
    MaxTime = 0
    Credentials = {}
    z1 = z1
    zx = zx
    Salts = {z1, zx}
    Fits <- MCFits
    Nonces = {n1}
SPECIFICATION Spec
SYMMETRY Symmetry
INVARIANTS
    TypeOK
    SignedAddressEarned
PROPERTIES
    ImplementsVault
