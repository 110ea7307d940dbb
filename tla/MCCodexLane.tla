----------------------------- MODULE MCCodexLane ----------------------------
(* Instances of CodexLane for TLC.                                         *)
EXTENDS CodexLane, TLC

\* Workers are interchangeable.  Used for safety only.
Interchangeable == Permutations(Worker)
=============================================================================
