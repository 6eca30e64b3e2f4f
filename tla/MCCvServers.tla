------------------------------ MODULE MCCvServers ------------------------------
(* A run of two machines, and dev sessions beside it. *)
EXTENDS CvServers
CONSTANTS run, dev, other
TwoMachines == [r \in Run |-> IF r = run THEN 2 ELSE 1]
Pairs == {{run, dev}, {dev, other}}
ThreePids == 1..3
TwoPorts == 1..2
=============================================================================
