--------------------------- MODULE MCRequestStore ---------------------------
\* Instances of RequestStore for TLC.
EXTENDS RequestStore, TLC

CONSTANTS r1, r2, c1, c2

TwoRequests == {r1, r2}
TwoConnections == {c1, c2}
QuotesAny == {"fulfilled", "locked"}
NoneOrThird == {Null, 3}
FirstToFourth == 1 .. 4

Interchangeable == Permutations(TwoRequests) \union Permutations(TwoConnections)
=============================================================================
