-------------------------- MODULE MCCheckpointGate --------------------------
(* Instances of CheckpointGate for TLC.                                    *)
EXTENDS CheckpointGate, TLC

\* Workers and commands are interchangeable.  Used for safety only.
Interchangeable == Permutations(Worker)
=============================================================================
