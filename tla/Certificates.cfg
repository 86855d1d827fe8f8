\* Two certificates of two tenants, two requests and two readers of links, with the sweep.
SPECIFICATION Spec
CONSTANTS
    t1 = t1
    t2 = t2
    c1 = c1
    c2 = c2
    c3 = c3
    r1 = r1
    r2 = r2
    r3 = r3
    d1 = d1
    d2 = d2
    NoCert = NoCert
    NoTenant = NoTenant
    TenantId = {t1, t2}
    Cert = {c1, c2}
    Request = {r1, r2}
    Reader = {d1, d2}
    Life = 0
    SweepEvery = 1
    MaxTime = 2
SYMMETRY CertSymmetry
INVARIANTS RenewalsKeepTheTenant BundlesAreRegistered SingleUse BundlesAreIntact KeysAreErased KeysExpire
PROPERTIES RevokedForGood RevokedAtTheCA
CHECK_DEADLOCK FALSE
