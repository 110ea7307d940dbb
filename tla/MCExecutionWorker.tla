------------------------- MODULE MCExecutionWorker -------------------------
(* Instances of ExecutionWorker for TLC.                                   *)
EXTENDS ExecutionWorker, TLC

\* Workers are interchangeable, and so are session ids.  Used for invariants
\* and action properties only, never for liveness.
Interchangeable == Permutations(Worker) \cup Permutations(Session)
=============================================================================
