------------------------------ MODULE MCRunLease ------------------------------
\* TLC's instance of RunLease: two workers in the first process, one in each
\* other.
EXTENDS RunLease, TLC

CONSTANTS d1, d2, d3, w1, w2, w3, w4

MCProcs == {d1, d2, d3}
MCWorkers == {w1, w2, w3, w4}
MCOwner == (w1 :> d1 @@ w2 :> d1 @@ w3 :> d2 @@ w4 :> d3)
==============================================================================
