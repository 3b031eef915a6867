--------------------------- MODULE MCWorkerPool ---------------------------
(* Instances of WorkerPool for TLC.                                        *)
EXTENDS WorkerPoolProperties, TLC

CONSTANTS j1, j2, j3, j4

\* One job that runs once, one that may run twice, one that may run three
\* times; the zero of an unset Retry is exercised by AnyAttempts.
FewAttempts == (j1 :> 1) @@ (j2 :> 2) @@ (j3 :> 3) @@ (j4 :> 1)
AnyAttempts == (j1 :> 0) @@ (j2 :> 2)

=============================================================================
