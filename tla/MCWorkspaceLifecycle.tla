----------------------- MODULE MCWorkspaceLifecycle ------------------------
(* Instances of WorkspaceLifecycle for TLC.                                *)
EXTENDS WorkspaceLifecycle, TLC

\* Managers are interchangeable.  Used for safety only, never for liveness.
Interchangeable == Permutations(Manager)
=============================================================================
