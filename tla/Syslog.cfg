\* Three clients of two tenants, two of which may be served at a time.
SPECIFICATION BenignSpec
CONSTANTS
    a = a
    b = b
    c1 = c1
    c2 = c2
    c3 = c3
    s1 = s1
    s2 = s2
    s3 = s3
    Conn = {c1, c2, c3}
    Socket = {s1, s2}
    Tenant = {a, b}
    TenantOf <- TwoTenants
    MaxPool = 1
    MaxConnections = 2
    MaxConnsPerTenant = 1
    Managed = {a}
    MayCancel = TRUE
INVARIANTS SocketsAreOwned CapsHold FramesAreRecorded ShutdownIsClean
PROPERTIES FramesAreAnswered ShutdownCompletes
CHECK_DEADLOCK FALSE
