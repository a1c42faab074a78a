SPECIFICATION Spec
CONSTANTS
    Codes = {c1, c2}
    Grants <- MCGrants
    Configs <- MCConfigs
    Accounts = {"a", "b"}
    Apps = {"ours", "theirs"}
    Clients = {"ours", "theirs", "web"}
    Nonces = {"n1", "n2"}
    Requests = {p1, p2}
    None = None
INVARIANTS
    TypeOK
    VouchedFor
    OneUserPerAccount
    OneSessionPerCode
PROPERTIES
    RefusedForCause
