------------------------------- MODULE MCDbWriter -------------------------------
(* Small instances of DbWriter. *)
EXTENDS DbWriter

CONSTANTS o1, o2, o3, l1, l2, t1, t2
=============================================================================
