SPECIFICATION Spec
CONSTANTS
    s1 = s1  s2 = s2  r1 = r1  r2 = r2
    Nothing = Nothing
    NoMarket = NoMarket
    Submissions <- TwoSubmissions
    Requests <- OneRequest
    ProofTypes <- Batch
    TypeOf <- AllBatch
    Disturbances = {"crash"}
INVARIANT PendingIsPolled
