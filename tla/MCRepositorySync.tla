-------------------------- MODULE MCRepositorySync --------------------------
(* Instances of RepositorySync for TLC; the commits are numbers, so nothing *)
(* but the bounds of the configurations has to be added.                    *)
EXTENDS RepositorySync, TLC
=============================================================================
