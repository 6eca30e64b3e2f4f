------------------------------ MODULE RemoteCalls ------------------------------
(***************************************************************************)
(* What a tool call promises its caller.  The work of a call is done at    *)
(* most once and only if the call was made; an answer is the answer of     *)
(* that very work; a call ends once.  A caller that gave up knows nothing: *)
(* the work may be done, running or never begun.                           *)
(***************************************************************************)
CONSTANT Call

VARIABLES outcome, work

Init == outcome = [c \in Call |-> "idle"] /\ work = [c \in Call |-> "none"]

Ask(c) ==
  /\ outcome[c] = "idle"
  /\ outcome' \in {[outcome EXCEPT ![c] = o] : o \in {"waiting", "unknown"}}
  /\ UNCHANGED work

Work(c) ==
  /\ \/ /\ work[c] = "none" /\ outcome[c] # "idle"
        /\ work' \in {[work EXCEPT ![c] = w] : w \in {"runs", "failed"}}
     \/ /\ work[c] = "runs"
        /\ work' \in {[work EXCEPT ![c] = w] : w \in {"ok", "failed", "stopped"}}
  /\ UNCHANGED outcome

Answer(c) ==
  /\ outcome[c] = "waiting" /\ work[c] \in {"ok", "failed"}
  /\ outcome' = [outcome EXCEPT ![c] = work[c]]
  /\ UNCHANGED work

GiveUp(c) ==
  /\ outcome[c] = "waiting"
  /\ outcome' = [outcome EXCEPT ![c] = "unknown"]
  /\ UNCHANGED work

Next == \E c \in Call : Ask(c) \/ Work(c) \/ Answer(c) \/ GiveUp(c)

Spec == Init /\ [][Next]_<<outcome, work>>
=============================================================================
