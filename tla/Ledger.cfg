SPECIFICATION SceneSpec
CONSTANTS
    m1 = m1
    m2 = m2
    p1 = p1
    p2 = p2
    a1 = a1
    a2 = a2
    a3 = a3
    k1 = k1
    x1 = x1
    x2 = x2
    MaxSafeInteger = 1000
    Missions = {m1, m2}
    ActiveMissions = {m1}
    Permits = {p1, p2}
    PermitDocuments <- SceneDocuments
    AuthIds = {a1, a2, a3}
    IdempotencyKeys = {k1}
    Actions <- SceneActions
    Processes = {x1, x2}
    MaxTime = 2
    NoPermit = NoPermit
    NoAuthorization = NoAuthorization
    Idle = Idle
SYMMETRY SceneSymmetry
INVARIANTS
    TypeOK
    OneAuthorizationPerKey
    OnePaymentReservation
    ExecutionsWithinGrant
    AggregatesWithinGrant
    OneActivePermit
    AuthorizationsNameStoredTerms
PROPERTIES
    NoReleaseAfterExecution
    TermsFrozenAfterActivation
CHECK_DEADLOCK FALSE
