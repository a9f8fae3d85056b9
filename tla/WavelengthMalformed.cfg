SPECIFICATION WavelengthChecked
CONSTANTS
    a1 = a1
    a2 = a2
    k1 = k1
    k2 = k2
    x1 = x1
    x2 = x2
    i1 = i1
    i2 = i2
    h1 = h1
    h2 = h2
    AuthIds = {a1}
    IdempotencyKeys = {k1}
    Processes = {x1}
    Intents = {i1}
    PaymentHashes = {h1}
    HashOf <- OneIntent
    OperatorCommands <- EveryCommand
    MaxCrashes = 0
    MaxSends = 2
    None = None
    Absent = Absent
    Odd = Odd
    Refused = Refused
    MaxSafeInteger = 6
INVARIANTS
    MalformedBecomesAmbiguous
CHECK_DEADLOCK FALSE
