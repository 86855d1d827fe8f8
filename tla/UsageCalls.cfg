\* Stop and FlushCounters racing the handlers, with a database error.
SPECIFICATION Spec
CONSTANTS
    a = a
    b = b
    s1 = s1
    s2 = s2
    s3 = s3
    NoFlusher = NoFlusher
    f1 = f1
    Sample <- MCSample
    Tenant <- MCTenant
    TenantOf <- MCTenantOf
    SignalOf <- MCSignalOf
    Signal = {"logs"}
    Flusher = {f1}
    Deletable = {}
    BufferSize = 2
    Retention = 1
    MaxHour = 0
    MaxDbErrors = 1
    MaxRestarts = 0
    MayStop = TRUE
INVARIANTS StopPersists AckedFlushPersists
PROPERTIES PendingIsPersisted StopTerminates FlushCountersReturns
CHECK_DEADLOCK FALSE
