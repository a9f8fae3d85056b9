SPECIFICATION CartSpec
CONSTANTS
    Absent = Absent
    None = None
    Stale = Stale
    a1 = a1
    x1 = x1
    x2 = x2
    s1 = s1
    s2 = s2
    MonthLength = 2
    MaxMovements = 3
    Arrival = 3
    Departure = 5
    Attempts = {a1}
    Processes = {x1, x2}
    Sites = {s1, s2}
    Requests <- OperatorRequests
    Pages <- SessionPages
    MaxMoves = 3
    MaxMishaps = 2
SYMMETRY Symmetry
INVARIANTS
    TypeOK
    OneClickPerAvailability
    ClickIsOnRecord
    HoldIsProved
    CartIsReadRight
    PageIsReadRight
PROPERTIES
    AttemptsFollowTheTable
