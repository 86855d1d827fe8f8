\* A request of one of two tenants, over restarts of a fresh or a legacy database.
SPECIFICATION Spec
CONSTANTS
    a = a
    b = b
    r1 = r1
    r2 = r2
    Tenant = {a, b}
    Request = {r1}
    TenantOf <- MCTenantOf
    Payloads <- MCPayloads
    Databases <- MCDatabases
INVARIANTS KeysSurvive Adopted IdentityIsServers StoreOutlivesHandlers ForwardedIsCounted
PROPERTIES ShutdownEnds
