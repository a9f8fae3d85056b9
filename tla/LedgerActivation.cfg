SPECIFICATION Spec
CONSTANTS
    m1 = m1
    m2 = m2
    p1 = p1
    p2 = p2
    a1 = a1
    a2 = a2
    a3 = a3
    k1 = k1
    x1 = x1
    x2 = x2
    MaxSafeInteger = 1000
    Missions = {m1}
    ActiveMissions = {m1}
    Permits = {p1}
    PermitDocuments <- LifeDocuments
    AuthIds = {a1}
    IdempotencyKeys = {k1}
    Actions <- OnePurchase
    Processes = {x1, x2}
    MaxTime = 1
    NoPermit = NoPermit
    NoAuthorization = NoAuthorization
    Idle = Idle
PROPERTIES
    ActivationKeepsStoredTerms
CHECK_DEADLOCK FALSE
