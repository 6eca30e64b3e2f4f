----------------------------- MODULE MCAgentCalls -----------------------------
(* Small instances of AgentCalls. *)
EXTENDS AgentCalls, TLC

CallConnSymmetry == Permutations(Call) \cup Permutations(Conn)
=============================================================================
