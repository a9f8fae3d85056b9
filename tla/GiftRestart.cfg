SPECIFICATION Spec
CONSTANTS
    k1 = k1
    k2 = k2
    x1 = x1
    x2 = x2
    h1 = h1
    Keys = {k1}
    Processes = {x1, x2}
    Reconcilers = {}
    PaymentHashes = {h1}
    Payment = h1
    OperatorCommands <- NoCommand
    MaxPosts = 2
    MaxSends = 2
    MaxMishaps = 1
    None = None
INVARIANTS
    RestartReconciles
CHECK_DEADLOCK FALSE
