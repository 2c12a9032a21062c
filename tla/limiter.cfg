\* Two addresses, two requests per window of two, clean-up every three.
CONSTANTS
    a = a
    b = b
    Ips <- TwoAddresses
    MaxRequests = 2
    Window = 2
    Period = 3
    Instants <- FirstToSeventh
    Never = Never
SPECIFICATION Spec
INVARIANTS TypeOK BurstBounded EntriesExpire
PROPERTY RefusedWithCause
CHECK_DEADLOCK FALSE
