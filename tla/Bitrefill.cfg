SPECIFICATION BitrefillSpec
CONSTANTS
    k1 = k1
    x1 = x1
    x2 = x2
    b1 = b1
    b2 = b2
    Absent = Absent
    Refused = Refused
    None = None
    One = 131072
    Half = 512
    Units <- PowersOfTwo
    Epsilon = 26214
    MaxSafeInteger = 1023
    Keys = {k1}
    Instants = {1, 2}
    Processes = {x1, x2}
    OperatorCommands <- PlainCommands
    MaxPosts = 2
    MaxMishaps = 1
    Bindings = {b1, b2}
    Forms <- FormsWithConsent
    Amount <- ExactAmount
    MaxSteps = 2
    MaxChainMishaps = 1
INVARIANTS
    BitrefillTypeOK
    InvoicePostedOnce
    WrittenOffMeansNoInvoice
    SubmittedIsOnRecord
    SecondChainNeedsAnOperator
    ReadyHasItsSecret
    SlotIsNotAbandoned
    BoughtAsAuthorized
    FormsAreLeftToAHuman
    AcceptedIsReadUnpaid
PROPERTIES
    UnexpectedPaymentIsNoticed
CHECK_DEADLOCK FALSE
