\* Does an Open that was begun succeed or fail, whatever statement fails?
SPECIFICATION Spec
CONSTANTS
    a = a
    b = b
    r1 = r1
    r2 = r2
    Tenant = {a, b}
    Request = {}
    TenantOf <- MCTenantOf
    Payloads <- MCPayloads
    Databases <- MCDatabases
PROPERTIES OpenReturns
