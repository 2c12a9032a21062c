----------------------------- MODULE MCSettings -----------------------------
\* Instances of Settings for TLC.
EXTENDS Settings

CONSTANTS urlA, urlB

TwoUrls == {urlA, urlB}

\* 2^32 is out of TLC's range: the wrap is at 10^8, below which the defaults
\* fit and 16667 milliseconds do not.
Wrap == 100000000

Some(S) == S \union {Unset}

SomeParams ==
    [ramp : {0, 70, 100000}, lock : {0, 10, 16667}, timeout : {5, 400, 16666}]

SomeFiles ==
    Some([deployment : Some([type : Some(Deployments), overrides : Some(Overrides)]),
          offers : {Unset},
          rpc : Some(TwoUrls)]
         \union
         [deployment : {Unset},
          offers : [Kinds -> Some(SomeParams)],
          rpc : {Unset}])
=============================================================================
