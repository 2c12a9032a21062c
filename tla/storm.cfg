SPECIFICATION Spec
CONSTANTS
    s1 = s1  s2 = s2  r1 = r1  r2 = r2
    Nothing = Nothing
    NoMarket = NoMarket
    Submissions <- TwoSubmissions
    Requests <- OneRequest
    ProofTypes <- Batch
    TypeOf <- AllBatch
    Disturbances = {"overlap", "disconnect", "deadline", "cut", "lasting", "storage", "prune", "crash"}
SYMMETRY SubmissionSymmetry
INVARIANT TypeOK
INVARIANT NeverAheadOfMarket
