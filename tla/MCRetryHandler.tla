-------------------------- MODULE MCRetryHandler --------------------------
(* Model-checking instance of RetryHandler: two recipients, two goroutines *)
(* calling Add, and the constants bound in the .cfg files.                 *)
EXTENDS RetryHandler

CONSTANTS u1, u2, c1, c2, w1, w2

MCUsers == {u1, u2}
MCCallers == {c1, c2}
MCOneWorker == {w1}
MCTwoWorkers == {w1, w2}

=============================================================================
