\* Two rows and two connections; an hour is one unit, a life two; error texts
\* may say fulfilled or locked.
CONSTANTS
    r1 = r1
    r2 = r2
    c1 = c1
    c2 = c2
    Requests <- TwoRequests
    Connections <- TwoConnections
    Hour = 1
    Life = 2
    Instants <- FirstToFourth
    Quotes <- QuotesAny
    OldExpiries <- NoneOrThird
    Null = Null
SYMMETRY Interchangeable
SPECIFICATION Spec
INVARIANTS TypeOK ListsTruthful
PROPERTIES ReportedAreGone ImplementsTable
CHECK_DEADLOCK FALSE
