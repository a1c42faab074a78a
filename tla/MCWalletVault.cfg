\* An OAuth user and the user of wallet a1 compete for one passkey and two
\* challenges with two handlers at a time; a challenge can expire; one session
\* at a time.
CONSTANTS
    u1 = u1
    w1 = w1
    a1 = a1
    a2 = a2
    Users = {u1, w1}
    ZkUsers = {u1}
    Wallet <- MCWallet
    Addresses = {a1, a2}
    Credentials = {c1}
    z1 = z1
    z2 = z2
    zx = zx
    Salts = {z1, z2, zx}
    Fits <- MCFits
    Nonces = {n1, n2}
    Sessions = {s1}
    Requests = {r1, r2}
    None = None
SPECIFICATION Spec
SYMMETRY Symmetry
INVARIANTS
    TypeOK
    VaultProved
    CredentialUnique
    SessionAddressEarned
    BindSaltKept
    AgreeUnlessRaced
