----------------------------- MODULE MCStageEvents -----------------------------
(* A small instance of StageEvents: two top-level stages of one name, one after *)
(* the other, as a run enters a stage again, with a stage inside the second.    *)
EXTENDS StageEvents, TLC

CONSTANTS t1, t2, c2

AgainParent == (t1 :> None) @@ (t2 :> None) @@ (c2 :> t2)
AgainName   == (t1 :> "t") @@ (t2 :> "t") @@ (c2 :> "c")
=============================================================================
