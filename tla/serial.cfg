SPECIFICATION FairSpec
CONSTANTS
    s1 = s1  s2 = s2  r1 = r1  r2 = r2
    Nothing = Nothing
    NoMarket = NoMarket
    Submissions <- TwoSubmissions
    Requests <- OneRequest
    ProofTypes <- Batch
    TypeOf <- AllBatch
    Disturbances = {"deadline", "lasting", "rpc", "decode"}
INVARIANT OneWorkingSubmission
INVARIANT Tended
INVARIANT WorkIsOnRecord
INVARIANT TerminalLeavesMap
INVARIANT NoGhosts
PROPERTY FollowsLifecycle
PROPERTY EveryRequestEnds
