--------------------------- MODULE MCRateLimiter ---------------------------
\* Instances of RateLimiter for TLC.
EXTENDS RateLimiter

CONSTANTS a, b

TwoAddresses == {a, b}

FirstToSeventh == 1 .. 7
=============================================================================
