----------------------------- MODULE MCRunInstances -----------------------------
(* Small instances of RunInstances. *)
EXTENDS RunInstances

CONSTANTS a, d, q, x, o
=============================================================================
