SPECIFICATION WavelengthChecked
CONSTANTS
    a1 = a1
    a2 = a2
    k1 = k1
    k2 = k2
    x1 = x1
    x2 = x2
    i1 = i1
    i2 = i2
    h1 = h1
    h2 = h2
    AuthIds = {a1, a2}
    IdempotencyKeys = {k1, k2}
    Processes = {x1, x2}
    Intents = {i1, i2}
    PaymentHashes = {h1}
    HashOf <- OneInvoice
    OperatorCommands <- PlainCommands
    MaxCrashes = 1
    MaxSends = 2
    None = None
    Absent = Absent
    Odd = Odd
    Refused = Refused
    MaxSafeInteger = 6
SYMMETRY IntentSymmetry
INVARIANTS
    TypeOK
    SendAtMostOnce
    SendIsOnRecord
    UnknownNeverAllows
    QuoteAndActivityAgree
PROPERTIES
    PromiseKept
CHECK_DEADLOCK FALSE
