CONSTANTS
    c1 = c1
    c2 = c2
    p1 = p1
    wired = wired
    unwired = unwired
    stranger = stranger
    planning = planning
    status = status
    weapons = weapons
    torn = torn
    ghost = ghost
    Calls <- MCCalls
    Roles <- MCRoles
    Principals <- MCPrincipals
    Est = 1
    Estimates <- MCEstimates
    CapRequest = 2
    CapRole = 2
    CapPrincipal = 1
    CapSession = 2
    Day = 1
    Hour = 1
    MaxTime = 1
    MaxRestarts = 1
    Strangers <- MCStrangers
    Wired <- MCWired
    Classes <- MCClasses
    CharterForbidden <- MCCharterForbidden
    Vocabulary <- MCVocabulary
    AlwaysAvailable <- MCAlwaysAvailable
    RoleAllowed <- MCRoleAllowed
    RoleForbidden <- MCRoleForbidden
    MaxAttempts = 2
SPECIFICATION FairSpec
INVARIANTS
    TypeOK
    AnswersAudited
    SealedOnce
    OnlyAdmittedRuns
    ChargedForArtifacts
PROPERTIES
    KeepsPromise
    Answered
