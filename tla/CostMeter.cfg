CONSTANTS
    c1 = c1
    c2 = c2
    r1 = r1
    p1 = p1
    p2 = p2
    Calls <- MCCalls
    Roles <- MCRoles
    Principals <- MCPrincipals
    Est = 1
    Estimates <- MCEstimates
    CapRequest = 5
    CapRole = 2
    CapPrincipal = 1
    CapSession = 3
    Day = 2
    Hour = 1
    MaxTime = 3
    MaxRestarts = 1
SPECIFICATION Spec
INVARIANTS
    TypeOK
    SessionBound
    RoleBound
    PrincipalBound
    AnyDayBound
    LedgersAgree
