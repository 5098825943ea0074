----------------------------- MODULE MCStorage ------------------------------
(* A chain of a few blocks with a short undo history, so that a replay has *)
(* blocks on both sides of the undo point.                                 *)
EXTENDS Storage
=============================================================================
