\* Two administrator requests, deletes, updates and an authentication.
SPECIFICATION Spec
CONSTANTS
    t1 = t1
    t2 = t2
    old1 = old1
    k1 = k1
    k2 = k2
    k3 = k3
    r1 = r1
    r2 = r2
    r3 = r3
    c1 = c1
    NoTenant = NoTenant
    TenantId = {t1, t2}
    Secret = {old1, k1, k2, k3}
    Legacy = {old1}
    LegacyTenant = t1
    Request = {r1, r2, r3}
    Client = {c1}
SYMMETRY FreshSymmetry
INVARIANTS KeysStayWithTheirTenant OldKeysAreDead
PROPERTIES DeadKeysStayDead OnlyLiveKeysMatch
CHECK_DEADLOCK FALSE
