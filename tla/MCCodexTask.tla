----------------------------- MODULE MCCodexTask -----------------------------
(* Instances of CodexTask for TLC. *)
EXTENDS CodexTask, TLC
=============================================================================
