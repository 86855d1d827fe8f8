\* Safety and refinement: deletion, a database error, retention, a restart.
SPECIFICATION Safety
CONSTANTS
    a = a
    b = b
    s1 = s1
    s2 = s2
    s3 = s3
    NoFlusher = NoFlusher
    f1 = f1
    Sample <- MCSample
    Tenant <- MCTenant
    TenantOf <- MCTenantOf
    SignalOf <- MCSignalOf
    Signal = {"logs"}
    Flusher = {}
    Deletable = {a}
    BufferSize = 2
    Retention = 1
    MaxHour = 2
    MaxDbErrors = 1
    MaxRestarts = 1
    MayStop = FALSE
INVARIANTS ExactlyOnce
PROPERTIES RowsLeaveForAReason LedgerSpec
CHECK_DEADLOCK FALSE
