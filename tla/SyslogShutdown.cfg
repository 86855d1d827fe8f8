\* Shutdown whatever the clients and the collector do.
SPECIFICATION Spec
CONSTANTS
    a = a
    b = b
    c1 = c1
    c2 = c2
    c3 = c3
    s1 = s1
    s2 = s2
    s3 = s3
    Conn = {c1, c2}
    Socket = {s1, s2, s3}
    Tenant = {a}
    TenantOf <- OneTenant
    MaxPool = 1
    MaxConnections = 2
    MaxConnsPerTenant = 2
    Managed = {}
    MayCancel = TRUE
PROPERTIES ShutdownCompletes
CHECK_DEADLOCK FALSE
