---------------------------- MODULE MCRunnerJobs ----------------------------
(* Instances of RunnerJobs for TLC.                                        *)
EXTENDS RunnerJobs, TLC

\* Threads and connections are interchangeable.  Used for safety only.
Interchangeable == Permutations(Thread) \union Permutations(Call)
=============================================================================
