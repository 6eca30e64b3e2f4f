--------------------------- MODULE MCRunLifecycle ---------------------------
(* Instances of RunLifecycle for TLC. *)
EXTENDS RunLifecycle

CONSTANTS client, server, t1, t2

TwoMachines == <<client, server>>
OneMachine == <<client>>
=============================================================================
