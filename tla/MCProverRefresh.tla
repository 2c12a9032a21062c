-------------------------- MODULE MCProverRefresh --------------------------
\* Instances of ProverRefresh for TLC.
EXTENDS ProverRefresh

CONSTANTS elf1, elf2, u1, p1

TwoImages == {elf1, elf2}
OneUploader == {u1}
OneSubmitter == {p1}

FirstToTenth == 1 .. 10

\* With the defaults in minutes: just before a URL made at 0 is due for
\* renewal, and when it expires ...
AroundExpiry == {57, 60}

\* ... and the first minute at which the first prover is too old.
AfterTtl == {31}
=============================================================================
