---------------------------- MODULE MCProofAgent ----------------------------
\* Instances of ProofAgent for TLC.
EXTENDS ProofAgent, TLC

CONSTANTS s1, s2, r1, r2

OneRequest == {r1}
TwoRequests == {r1, r2}
TwoSubmissions == {s1, s2}

AllBatch == [r \in Requests |-> "batch"]

\* r1 is a batch request, any other one an aggregation.
Mixed == [r \in Requests |-> IF r = r1 THEN "batch" ELSE "aggregate"]

Batch == {"batch"}
BatchAndAggregate == {"batch", "aggregate"}

SubmissionSymmetry == Permutations(Submissions)
=============================================================================
