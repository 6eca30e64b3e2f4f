----------------------------- MODULE MCInstancePool -----------------------------
(* Small instances of InstancePool: a handful of processes, rows and ports. *)
EXTENDS InstancePool, TLC

CONSTANTS p1, p2, p3, r1, r2, r3, r4

ThreeRows == {r1, r2, r3}
FourRows  == {r1, r2, r3, r4}
TwoPorts  == 18765 .. 18766
RunnerSymmetry == Permutations({p1, p2})  \* the processes that are not a Janitor
=============================================================================
