\* A deleted tenant leaves a sample behind: do the others still get counted?
SPECIFICATION Spec
CONSTANTS
    a = a
    b = b
    s1 = s1
    s2 = s2
    s3 = s3
    NoFlusher = NoFlusher
    f1 = f1
    Sample <- MCSample
    Tenant <- MCTenant
    TenantOf <- MCTenantOf
    SignalOf <- MCSignalOf
    Signal = {"logs"}
    Flusher = {}
    Deletable = {a}
    BufferSize = 2
    Retention = 1
    MaxHour = 0
    MaxDbErrors = 0
    MaxRestarts = 0
    MayStop = FALSE
PROPERTIES PendingIsPersisted
CHECK_DEADLOCK FALSE
